---- MODULE Spec2Model ----
(***************************************************************************)
(* A model of the wim disk-image engine (src/lib/wim/engine.py, class Disk) *)
(* and of the tool invoker it uses (src/lib/wim/misc.py).                   *)
(*                                                                          *)
(* A file is a set of extents [off, len, data]: `len` bytes of content      *)
(* `data` at byte offset `off`.  The first 2048 sectors of a disk are one   *)
(* extent whose data holds the boot code and the partition table.  The      *)
(* content of a filesystem is a directory tree; the external tools          *)
(* (debugfs, mtools, sfdisk, ...) are modelled by their effect on it and by *)
(* the output lines the engine parses.                                      *)
(***************************************************************************)
EXTENDS Integers, Sequences, FiniteSets, TLC

VARIABLES files, partitions, precache, fstypes, partimages, nextTmp,
          created, lastOp, pre, log, result, nops, faults, disposed

vars == <<files, partitions, precache, fstypes, partimages, nextTmp,
          created, lastOp, pre, log, result, nops, faults, disposed>>

(* ------------------------------ bounds --------------------------------- *)

\* operations performed on one engine before it is disposed of
MaxOps == 2
\* depth of the generated directory trees
MaxDepth == 2
\* a tool invocation or a copy of an operation may fail: 0 = none fails,
\* k = the k-th one fails
MaxFail == 3
\* the same for a write, whose steps are many more: the longest write has 16
MaxWriteFail == 16
\* failures of the environment injected during the life of one engine
MaxFaults == 1

(* -------------------------- program constants -------------------------- *)

\* logical sector size reported by parted (engine.py:88-89); 512 on the
\* images the model builds
LSectorSize == 512
\* first sectors copied verbatim, and the alignment of the free space
BootSectors == 2048
AlignSectors == 2048

\* file names: the image, the target, and the temporary files by number
IMAGE == <<"image", 0>>
TARGET == <<"target", 0>>
Tmp(n) == <<"tmp", n>>

(* ------------------------------ helpers -------------------------------- *)

Max(a, b) == IF a >= b THEN a ELSE b
Min(a, b) == IF a <= b THEN a ELSE b

\* str.startswith on the filesystem-type strings the model uses; a type
\* string is a pair <<family, rest>>, e.g. <<"ext", "4">>, <<"fat", "16">>,
\* <<"linux-swap", "(v1)">>, <<"ntfs", "">>, <<"", "">>
StartsWith(fstype, prefix) == fstype[1] = prefix

(* --------------------------- names and paths --------------------------- *)

\* a file name is a sequence of characters; a path is a sequence of names
NameA == <<"a">>
NameB == <<"b">>
NameColon == <<"a", ":", "b">>
\* a name no tree holds, spelling the words mdel prints for a missing file
NamePhrase == <<"n", "o", "t", " ", "f", "o", "u", "n", "d">>
\* the order in which a directory lists its entries
NameOrder == <<NameA, NameB, NameColon>>
Dot == <<".">>
DotDot == <<".", ".">>

IsPrefix(p, q) == Len(p) <= Len(q) /\ SubSeq(q, 1, Len(p)) = p

\* a tree maps each path it holds to "f" (file) or "d" (directory); the root
\* <<>> is not in the domain
EmptyTree == [p \in {} |-> "f"]
Children(t, dir) == {p \in DOMAIN t : Len(p) = Len(dir) + 1 /\ IsPrefix(dir, p)}
IsDir(t, p) == p = <<>> \/ (p \in DOMAIN t /\ t[p] = "d")
Without(t, gone) == [p \in DOMAIN t \ gone |-> t[p]]
With(t, p, kind) == [q \in DOMAIN t \cup {p} |-> IF q = p THEN kind ELSE t[q]]
Subtree(t, p) == {q \in DOMAIN t : IsPrefix(p, q)}

\* t moved below the directory `name`
Under(name, t) ==
    [p \in {<<name>>} \cup {<<name>> \o q : q \in DOMAIN t} |->
        IF p = <<name>> THEN "d" ELSE t[SubSeq(p, 2, Len(p))]]
Merge(t, u) == [p \in DOMAIN t \cup DOMAIN u |-> IF p \in DOMAIN t THEN t[p] ELSE u[p]]

\* the directory trees of depth <= d: at each level one of the three sets of
\* plain files, and the directory "a", absent or holding a smaller tree
LeafSets == {{}, {NameB}, {NameB, NameColon}}
Leaves(s) == [p \in {<<n>> : n \in s} |-> "f"]
RECURSIVE Trees(_)
Trees(d) ==
    IF d = 0 THEN {EmptyTree}
    ELSE LET sub == Trees(d - 1)
         IN  {Leaves(s) : s \in LeafSets}
             \cup {Merge(Leaves(s), Under(NameA, t)) : s \in LeafSets, t \in sub}

(* ----------------------- the source image ------------------------------- *)

\* One entry of the partition table as the table tools see it: sizes and
\* starts in sectors.  parted reports pnum, start, end, size (bytes) and the
\* filesystem type; sfdisk -J reports start, size (sectors), type, name and
\* the bootable flag, in the same order, without the partition number.
Entry(pnum, start, size, type, fstype, name, boot) ==
    [pnum |-> pnum, start |-> start, size |-> size, type |-> type,
     fstype |-> fstype, name |-> name, bootable |-> boot]

FAT16 == <<"fat", "16">>
EXT4 == <<"ext", "4">>
SWAP == <<"linux-swap", "(v1)">>
NTFS == <<"ntfs", "">>
NOFS == <<"", "">>

\* fat + ext
TableA == << Entry("1", 2048, 2048, "c", FAT16, "", TRUE),
             Entry("2", 4096, 4096, "83", EXT4, "", FALSE) >>
\* ext + swap + a filesystem the engine does not know
TableB == << Entry("1", 2048, 2048, "83", EXT4, "root", FALSE),
             Entry("2", 4096, 2048, "82", SWAP, "swap", FALSE),
             Entry("3", 6144, 2048, "7", NTFS, "", FALSE) >>
\* the types of a DOS table entry that holds nested partitions and no data
\* of its own: Extended, W95 Ext'd (LBA), Linux extended
IsContainer(type) == type \in {"5", "f", "85"}

\* a primary, an extended (table container) and a logical partition: the
\* partition numbers are 1, 2, 5
TableC == << Entry("1", 2048, 2048, "83", EXT4, "", FALSE),
             Entry("2", 4096, 6144, "f", NOFS, "", FALSE),
             Entry("5", 6144, 4096, "83", EXT4, "", FALSE) >>
\* the same layout with the extended partition of type 5
TableD == << Entry("1", 2048, 2048, "83", EXT4, "", FALSE),
             Entry("2", 4096, 6144, "5", NOFS, "", FALSE),
             Entry("5", 6144, 4096, "83", EXT4, "", FALSE) >>

\* ext, a filesystem the engine does not know in the middle, and a swap area
\* made with neither label nor UUID
TableE == << Entry("1", 2048, 2048, "83", EXT4, "", FALSE),
             Entry("2", 4096, 2048, "7", NTFS, "", FALSE),
             Entry("3", 6144, 2048, "82", SWAP, "", FALSE) >>

\* the tree the ext and FAT partitions of TableB to TableE hold: a file and
\* a directory with a file
SampleTree == Merge(Leaves({NameB}), Under(NameA, Leaves({NameB})))

\* the images an engine is constructed on: TableA with every tree, the other
\* tables with the sample tree
SourceImages(d) ==
    {<<TableA, t>> : t \in Trees(d)} \cup {<<TableB, SampleTree>>, <<TableC, SampleTree>>,
                                             <<TableD, SampleTree>>, <<TableE, SampleTree>>}

\* the content of an extent: what kind of data it is and, by kind, the
\* directory tree, the label, the UUID, the partition table
Data(fs, tree, label, uuid, table) ==
    [fs |-> fs, tree |-> tree, label |-> label, uuid |-> uuid, table |-> table]
TornData == Data("torn", EmptyTree, "", "", <<>>)

\* what a partition of the source holds, by its filesystem type; a swap
\* area has a UUID when it was made with a label
Content(e, tree) ==
    CASE StartsWith(e.fstype, "ext") -> Data("ext", tree, "", "", <<>>)
      [] StartsWith(e.fstype, "fat") -> Data("fat", tree, e.name, "", <<>>)
      [] StartsWith(e.fstype, "linux-swap") ->
            Data("swap", EmptyTree, e.name,
                 IF e.name = "" THEN "" ELSE "uuid-" \o e.pnum, <<>>)
      [] OTHER -> Data("raw", EmptyTree, "", e.pnum, <<>>)

BootData(table) == Data("boot", EmptyTree, "", "", table)
Extent(off, len, data) == [off |-> off, len |-> len, data |-> data]
Boot(f) == CHOOSE e \in f : e.off = 0
HasBoot(f) == \E e \in f : e.off = 0 /\ e.data.fs = "boot"
TableOf(f) == Boot(f).data.table

\* the image file: the boot extent and one extent per partition that holds
\* data of its own (a table container holds the partitions inside it)
BuildImage(table, tree) ==
    {Extent(0, BootSectors * LSectorSize, BootData(table))}
    \cup {Extent(table[i].start * LSectorSize, table[i].size * LSectorSize,
                 Content(table[i], tree)) : i \in {j \in 1..Len(table) : ~IsContainer(table[j].type)}}

\* the extent of file f that starts at byte offset off (a one-extent file
\* starts at 0)
At(f, off) == CHOOSE e \in f : e.off = off
HasAt(f, off) == \E e \in f : e.off = off

(* --------------------- Disk.get_partitions ----------------------------- *)

\* the index of the first c in s from position `from` on, Len(s) + 1 if none
RECURSIVE FirstIdx(_, _, _)
FirstIdx(s, c, from) ==
    IF from > Len(s) THEN Len(s) + 1
    ELSE IF s[from] = c THEN from
    ELSE FirstIdx(s, c, from + 1)

\* The output of `parted -sm image unit B print`: a sequence of lines, a line
\* being the sequence of its fields between colons and a field a sequence of
\* tokens.  A number with its unit is the two tokens <<n, "B">>.
HeaderMarker == << <<"BYT;">> >>
DeviceLine ==
    << <<"image">>, <<0, "B">>, <<"file">>, <<LSectorSize>>, <<LSectorSize>>, <<"msdos">>,
       <<"">>, <<";">> >>
\* a line parted prints ahead of the table; it holds a colon of its own
Diagnostic == << <<"Warning">>, <<"Unable to open read-write">> >>

\* parted's line for one entry: number, start, end, size in bytes with the
\* unit suffix, filesystem type, name, flags
PartedLine(e) ==
    << <<e.pnum>>, <<e.start * LSectorSize, "B">>,
       <<(e.start + e.size) * LSectorSize - 1, "B">>, <<e.size * LSectorSize, "B">>,
       e.fstype, <<e.name>>, <<";">> >>

PartedOutput(table, diags, marker) ==
    diags \o (IF marker
              THEN <<HeaderMarker, DeviceLine>> \o [i \in 1..Len(table) |-> PartedLine(table[i])]
              ELSE <<>>)

\* engine.py:92-94: the record of one line.  int(start[:-1]) is the number
\* held by the field without its last token.
PartRecord(line) ==
    [pnum |-> line[1][1],
     start |-> SubSeq(line[2], 1, Len(line[2]) - 1)[1],
     end |-> SubSeq(line[3], 1, Len(line[3]) - 1)[1],
     size |-> SubSeq(line[4], 1, Len(line[4]) - 1)[1],
     fstype |-> line[5]]

\* every output parses, the marker or none
ParseOutputLenient(lines) ==
    [err |-> "", lsector_size |-> 0, records |-> <<>>]

\* engine.py:82-95: the records of the lines after the header marker and the
\* device line, in their order; no records and an error when no line is the
\* marker
ParseOutput(lines) ==
    IF FirstIdx(lines, HeaderMarker, 1) > Len(lines)
    THEN [err |-> "TableParseError", lsector_size |-> 0, records |-> <<>>]
    ELSE [err |-> "",
          lsector_size |-> lines[FirstIdx(lines, HeaderMarker, 1) + 1][4][1],
          records |-> [k \in 1..(Len(lines) - FirstIdx(lines, HeaderMarker, 1) - 1) |->
                          PartRecord(lines[FirstIdx(lines, HeaderMarker, 1) + 1 + k])]]

\* engine.py:95: the records stored under the number as a string
ByNumber(records) ==
    [p \in {records[i].pnum : i \in 1..Len(records)} |->
        records[CHOOSE i \in 1..Len(records) :
                   records[i].pnum = p /\ \A k \in 1..Len(records) :
                                             records[k].pnum = p => k <= i]]

get_partitions(lines) == ByNumber(ParseOutput(lines).records)

(* ------------------------- the running handler ------------------------- *)

\* The state a handler threads through its steps.  err # "" is a raised
\* exception: every later step is skipped.  `step` counts the tool
\* invocations and copies made so far, `failAt` is the one that fails.
Event(ev, tool, arg) == [ev |-> ev, tool |-> tool, arg |-> arg]

Start(failAt) ==
    [files |-> files, partimages |-> partimages, nextTmp |-> nextTmp,
     created |-> created, log |-> <<>>, err |-> "", errout |-> "", ret |-> "",
     step |-> 0, failAt |-> failAt]

Raise(m, kind, text) == [m EXCEPT !.err = kind, !.errout = text]
Note(m, ev, tool, arg) == [m EXCEPT !.log = Append(@, Event(ev, tool, arg))]

(* ------------------------------ the tools ------------------------------ *)

\* What a tool did: its exit status, its output, and the files as it left
\* them.
ToolRun(rc, out, fs) == [rc |-> rc, out |-> out, files |-> fs]

Overlaps(e, off, len) == e.off < off + len /\ off < e.off + e.len
Unlinked(fs, paths) == [f \in DOMAIN fs \ paths |-> fs[f]]

\* a file of zeros holds no filesystem
Zeros == Data("zero", EmptyTree, "", "", <<>>)
\* the tree held by the one-extent file f, and f with another tree
DataIn(fs, f) == IF HasAt(fs[f], 0) THEN At(fs[f], 0).data ELSE Zeros
TreeIn(fs, f) == DataIn(fs, f).tree
SetTree(fs, f, t) ==
    [g \in DOMAIN fs |->
        IF g = f
        THEN {Extent(0, At(fs[f], 0).len, [DataIn(fs, f) EXCEPT !.tree = t])}
        ELSE fs[g]]

\* an output line of debugfs: the command it comes from ("rm:", "rmdir:",
\* or "" for the version banner) and the text after it
Line(tag, text) == [tag |-> tag, text |-> text]
Banner == Line("", "debugfs 1.47.0")

\* debugfs -wR 'rm "path"': exit status 0 whatever happens
DebugfsRm(fs, f, path) ==
    LET t == TreeIn(fs, f)
    IN  IF IsDir(t, path)
        THEN ToolRun(0, <<Banner, Line("rm:", "file is a directory")>>, fs)
        ELSE IF path \notin DOMAIN t
        THEN ToolRun(0, <<Banner, Line("rm:", "File not found by ext2_lookup")>>, fs)
        ELSE ToolRun(0, <<Banner>>, SetTree(fs, f, Without(t, {path})))

\* debugfs -wR 'rmdir "path"'
DebugfsRmdir(fs, f, path) ==
    LET t == TreeIn(fs, f)
    IN  IF path \notin DOMAIN t
        THEN ToolRun(0, <<Banner, Line("rmdir:", "File not found by ext2_lookup")>>, fs)
        ELSE IF t[path] # "d"
        THEN ToolRun(0, <<Banner, Line("rmdir:", "file is not a directory")>>, fs)
        ELSE IF Children(t, path) # {}
        THEN ToolRun(0, <<Banner, Line("rmdir:", "directory not empty")>>, fs)
        ELSE ToolRun(0, <<Banner>>, SetTree(fs, f, Without(t, {path})))

\* One line of debugfs 'ls -l': inode, mode, owner, size, date, HH:MM and
\* the name, as characters.  Only the time and the name matter to the
\* engine's parsing; the fields before the time hold no colon.
LsLine(name) == <<"1", " ", "0", "7", ":", "3", "0", " ">> \o name
BannerLine == <<"d", "e", "b", "u", "g", "f", "s">>

EntriesIn(t, dir) ==
    LET present(n) == dir \o <<n>> \in DOMAIN t
    IN  SelectSeq(NameOrder, present)

RECURSIVE MapLs(_)
MapLs(names) == IF names = <<>> THEN <<>> ELSE <<LsLine(Head(names))>> \o MapLs(Tail(names))

\* debugfs -R 'ls -l path'
DebugfsLs(fs, f, path) ==
    LET t == TreeIn(fs, f)
    IN  IF IsDir(t, path)
        THEN ToolRun(0, <<BannerLine>> \o MapLs(<<Dot, DotDot>> \o EntriesIn(t, path)), fs)
        ELSE IF path \in DOMAIN t
        THEN ToolRun(0, <<BannerLine, LsLine(path[Len(path)])>>, fs)
        ELSE ToolRun(0, <<BannerLine>>, fs)

\* debugfs -w with 'cd dir' and 'write src name': a failed cd leaves the
\* root as the working directory; an existing name is not overwritten
DebugfsWrite(fs, f, dir, name) ==
    LET t == TreeIn(fs, f)
        at == IF IsDir(t, dir) THEN dir \o <<name>> ELSE <<name>>
    IN  IF at \in DOMAIN t THEN ToolRun(0, <<Banner>>, fs)
        ELSE ToolRun(0, <<Banner>>, SetTree(fs, f, With(t, at, "f")))

\* the mtools work on a FAT filesystem only
IsFat(fs, f) == DataIn(fs, f).fs = "fat"

\* mdir -i img ::path
Mdir(fs, f, path) ==
    IF ~IsFat(fs, f) THEN ToolRun(1, "non DOS media", fs)
    ELSE IF path # <<>> /\ path \notin DOMAIN TreeIn(fs, f)
    THEN ToolRun(1, "not found", fs)
    ELSE ToolRun(0, EntriesIn(TreeIn(fs, f), path), fs)

\* misc.py:97, args = cmd_and_args.split(): a command that is not run by the
\* shell is cut at white space, so the operand a tool is handed ends at the
\* first blank of the path.  The words after it are operands of their own;
\* they name nothing on the image and do not change what the tool does to
\* the first one.
RECURSIVE Operand(_)
Operand(path) ==
    IF path = <<>> THEN <<>>
    ELSE IF FirstIdx(path[1], " ", 1) <= Len(path[1])
    THEN <<SubSeq(path[1], 1, FirstIdx(path[1], " ", 1) - 1)>>
    ELSE <<path[1]>> \o Operand(Tail(path))

\* mdel -i img ::path deletes one plain file
Mdel(fs, f, path) ==
    LET t == TreeIn(fs, f)
    IN  IF ~IsFat(fs, f) THEN ToolRun(1, "non DOS media", fs)
        ELSE IF path \notin DOMAIN t THEN ToolRun(1, "not found", fs)
        ELSE IF t[path] = "d"
        THEN ToolRun(1, IF Children(t, path) # {} THEN "non empty" ELSE "not found", fs)
        ELSE ToolRun(0, "", SetTree(fs, f, Without(t, {path})))

\* mdeltree -i img ::path deletes a file or a directory with what it holds
Mdeltree(fs, f, path) ==
    LET t == TreeIn(fs, f)
    IN  IF ~IsFat(fs, f) THEN ToolRun(1, "non DOS media", fs)
        ELSE IF path \notin DOMAIN t THEN ToolRun(1, "not found", fs)
        ELSE ToolRun(0, "", SetTree(fs, f, Without(t, Subtree(t, path))))

\* mcopy -i img -snop src ::dir
McopyIn(fs, f, dir, name) ==
    LET t == TreeIn(fs, f)
    IN  IF ~IsFat(fs, f) THEN ToolRun(1, "non DOS media", fs)
        ELSE IF ~IsDir(t, dir) THEN ToolRun(1, "not found", fs)
        ELSE ToolRun(0, "", SetTree(fs, f, With(t, dir \o <<name>>, "f")))

\* mcopy -i img -snop ::path dest
McopyOut(fs, f, path) ==
    IF ~IsFat(fs, f) THEN ToolRun(1, "non DOS media", fs)
    ELSE IF path \notin DOMAIN TreeIn(fs, f) THEN ToolRun(1, "not found", fs)
    ELSE ToolRun(0, "", fs)

\* sfdisk -J: the table document, one entry per partition in table order
\* with start and size in sectors; the entries carry no partition number
DocEntry(e) ==
    [start |-> e.start, size |-> e.size, type |-> e.type, name |-> e.name,
     bootable |-> e.bootable]
Doc(table) == [i \in 1..Len(table) |-> DocEntry(table[i])]

\* write_sfdisk_script: one line per entry with the fields whose value is
\* truthy; the size of an extended partition (type 'f') is not written
ScriptLine(part) ==
    [hasSize |-> part.type # "f" /\ part.size # 0, size |-> part.size,
     type |-> part.type, name |-> part.name, bootable |-> part.bootable]

write_sfdisk_script(parts) == [i \in 1..Len(parts) |-> ScriptLine(parts[i])]

AlignUp(n) == ((n + AlignSectors - 1) \div AlignSectors) * AlignSectors

\* str(num) for the indices of a table
Str(n) == <<"1", "2", "3", "4", "5", "6", "7", "8", "9">>[n]

\* sfdisk applied to a script on a device of `capacity` sectors: partitions
\* are laid out in order from sector 2048 on aligned starts; a line without
\* a size takes the rest of the device, and the lines after an extended
\* partition lie inside it.  The layout is refused when a size is negative
\* or a partition ends beyond the device.
RECURSIVE Layout(_, _, _, _, _)
Layout(script, i, cursor, capacity, acc) ==
    IF i > Len(script) THEN [ok |-> TRUE, table |-> acc]
    ELSE LET l == script[i]
             start == AlignUp(cursor)
             size == IF l.hasSize THEN l.size ELSE capacity - start
         IN  IF size <= 0 \/ start + size > capacity
             THEN [ok |-> FALSE, table |-> acc]
             ELSE Layout(script, i + 1,
                         IF IsContainer(l.type) THEN start + AlignSectors ELSE start + size,
                         capacity,
                         Append(acc, Entry(Str(i), start, size, l.type, NOFS, l.name,
                                           l.bootable)))

SetTable(f, table) ==
    {IF e.off = 0 THEN [e EXCEPT !.data.table = table] ELSE e : e \in f}

Laid(fs, target, lay) ==
    IF ~lay.ok \/ ~HasBoot(fs[target]) THEN ToolRun(1, "sfdisk: failed", fs)
    ELSE ToolRun(0, "",
                 [f \in DOMAIN fs |->
                     IF f = target THEN SetTable(fs[f], lay.table) ELSE fs[f]])

Sfdisk(fs, target, script, capacity) ==
    Laid(fs, target, Layout(script, 1, BootSectors, capacity, <<>>))

\* sfdisk -J file
SfdiskJ(fs, f) ==
    IF HasBoot(fs[f]) THEN ToolRun(0, Doc(TableOf(fs[f])), fs)
    ELSE ToolRun(1, "sfdisk: failed", fs)

\* sfdisk -F: the sectors of the device outside every partition that holds
\* data
RECURSIVE EndOf(_)
EndOf(table) ==
    IF table = <<>> THEN BootSectors
    ELSE LET e == table[Len(table)]
             rest == EndOf(SubSeq(table, 1, Len(table) - 1))
         IN  IF IsContainer(e.type) THEN rest ELSE Max(rest, e.start + e.size)

Unpartitioned(f, capacity) == capacity - EndOf(TableOf(f))

\* `figure`: whether the output holds the line "Unpartitioned space ...
\* sectors"; the output is <<>> or the one figure
SfdiskF(fs, target, capacity, figure) ==
    ToolRun(0, IF figure THEN <<Unpartitioned(fs[target], capacity)>> ELSE <<>>, fs)

(* the tools that check, resize and rebuild a filesystem *)

OneExtent(len, data) == {Extent(0, len, data)}
PutFile(fs, f, content) == [g \in DOMAIN fs \cup {f} |-> IF g = f THEN content ELSE fs[g]]

\* e2fsck -pf file
E2fsck(fs, f) ==
    IF DataIn(fs, f).fs = "ext" THEN ToolRun(0, "", fs) ELSE ToolRun(8, "bad superblock", fs)

\* resize2fs file <sectors>s: the filesystem, and the file, get that size
Resize2fs(fs, f, sectors) ==
    IF DataIn(fs, f).fs = "ext" /\ sectors > 0
    THEN ToolRun(0, "", PutFile(fs, f, OneExtent(sectors * LSectorSize, DataIn(fs, f))))
    ELSE ToolRun(1, "resize2fs: failed", fs)

\* mkdosfs counts the size of the file it creates with -C in blocks of 1024
\* bytes
MkdosfsBlock == 1024

\* mkdosfs [-n label] -C file <blocks>: a fresh, empty FAT filesystem in a
\* new file
Mkdosfs(fs, f, label, blocks) ==
    IF f \in DOMAIN fs \/ blocks <= 0 THEN ToolRun(1, "mkdosfs: failed", fs)
    ELSE ToolRun(0, "", PutFile(fs, f, OneExtent(blocks * MkdosfsBlock,
                                                  Data("fat", EmptyTree, label, "", <<>>))))

\* mcopy -snompi file dir/* :: run by the shell: with nothing in dir the
\* pattern stays as it is and names no file
McopyAllIn(fs, f, tree) ==
    IF ~IsFat(fs, f) \/ DOMAIN tree = {} THEN ToolRun(1, "not found", fs)
    ELSE ToolRun(0, "", SetTree(fs, f, tree))

\* mcopy -snompi img :: dir
McopyAllOut(fs, f) ==
    IF ~IsFat(fs, f) THEN ToolRun(1, "non DOS media", fs) ELSE ToolRun(0, "", fs)

\* blkid --probe file: the output holds UUID="..." when the volume has one
Blkid(fs, f) == ToolRun(0, <<DataIn(fs, f).uuid>>, fs)

\* mkswap [-L label] [-U uuid] file
Mkswap(fs, f, label, uuid) ==
    IF f \notin DOMAIN fs THEN ToolRun(1, "mkswap: failed", fs)
    ELSE ToolRun(0, "", PutFile(fs, f, OneExtent(At(fs[f], 0).len,
                                                  Data("swap", EmptyTree, label, uuid, <<>>))))

\* the tool run by a command line, on the file it names
RunTool(tool, fs, f, arg) ==
    CASE tool = "debugfs-rm" -> DebugfsRm(fs, f, arg)
      [] tool = "debugfs-rmdir" -> DebugfsRmdir(fs, f, arg)
      [] tool = "debugfs-ls" -> DebugfsLs(fs, f, arg)
      [] tool = "debugfs-write" -> DebugfsWrite(fs, f, arg.dir, arg.name)
      [] tool = "debugfs-dump" -> ToolRun(0, <<Banner>>, fs)
      [] tool = "mdir" -> Mdir(fs, f, arg)
      [] tool = "mdel" -> Mdel(fs, f, Operand(arg))
      [] tool = "mdeltree" -> Mdeltree(fs, f, Operand(arg))
      [] tool = "mcopy-in" -> McopyIn(fs, f, arg.dir, arg.name)
      [] tool = "mcopy-out" -> McopyOut(fs, f, arg)
      [] tool = "sfdisk-J" -> SfdiskJ(fs, f)
      [] tool = "sfdisk-write" -> Sfdisk(fs, f, arg.script, arg.capacity)
      [] tool = "sfdisk-F" -> SfdiskF(fs, f, arg.capacity, arg.figure)
      [] tool = "e2fsck" -> E2fsck(fs, f)
      [] tool = "resize2fs" -> Resize2fs(fs, f, arg)
      [] tool = "mcopy-out-all" -> McopyAllOut(fs, f)
      [] tool = "mkdosfs" -> Mkdosfs(fs, f, arg.label, arg.blocks)
      [] tool = "mcopy-in-all" -> McopyAllIn(fs, f, arg)
      [] tool = "blkid" -> Blkid(fs, f)
      [] tool = "mkswap" -> Mkswap(fs, f, arg.label, arg.uuid)

(* ---------------------- misc.py: exec_cmd ------------------------------ *)

\* _exec_cmd after the tool has run: a nonzero exit status raises WimError
\* carrying the output, exit status 0 returns the output
\* the output is returned whatever the status
RanIgnoresStatus(m, tool, arg, r) ==
    [(IF r.rc # 0 THEN Note(m, "failed", tool, r.out) ELSE m)
        EXCEPT !.files = r.files, !.ret = r.out]

\* misc.py:103-112: the error raised on a status other than 0 carries the
\* output, the output is returned on status 0
Ran(m, tool, arg, r) ==
    IF r.rc # 0
    THEN Raise(Note([m EXCEPT !.files = r.files], "failed", tool, r.out),
               "ToolExecutionFailure", r.out)
    ELSE [m EXCEPT !.files = r.files, !.ret = r.out]

\* exec_cmd(cmd): `tool` run on file f.  The failAt-th step of a handler
\* fails for a reason of the environment (I/O error, a crash of the tool)
\* and changes no file.
exec_cmd(m, tool, f, arg) ==
    IF m.err # "" THEN m
    ELSE Ran([Note(m, "exec", tool, arg) EXCEPT !.step = @ + 1], tool, arg,
             IF m.step + 1 = m.failAt THEN ToolRun(1, "io error", m.files)
             ELSE RunTool(tool, m.files, f, arg))

\* a tool run on the file the step before has returned the name of
ExecOn(m, tool, arg) == exec_cmd(m, tool, m.ret, arg)

(* --------------------- filemap: sparse_copy ---------------------------- *)

\* the extents of src in the byte range [skip, skip + length) (length 0: to
\* the end), moved to seek; an extent cut by the range arrives as a torn
\* piece
Pieces(f, skip, seek, length) ==
    {Extent(Max(e.off, skip) - skip + seek,
            Min(e.off + e.len, IF length = 0 THEN e.off + e.len ELSE skip + length)
                - Max(e.off, skip),
            IF e.off >= skip /\ (length = 0 \/ e.off + e.len <= skip + length)
            THEN e.data
            ELSE TornData)
        : e \in {x \in f : x.off + x.len > skip
                           /\ (length = 0 \/ x.off < skip + length)}}

Overlay(f, pieces) ==
    {e \in f : \A p \in pieces : ~Overlaps(e, p.off, p.len)} \cup pieces

Torn(pieces) == {Extent(p.off, p.len, TornData) : p \in pieces}

Existing(fs, f) == IF f \in DOMAIN fs THEN fs[f] ELSE {}

\* sparse_copy(src, dst, skip, seek, length): the byte range of src is copied
\* into dst, which is created when it does not exist.  A copy that fails
\* part-way leaves dst existing, with the range torn.
sparse_copy(m, src, dst, skip, seek, length) ==
    IF m.err # "" THEN m
    ELSE IF m.step + 1 = m.failAt
    THEN Raise([Note(Note(m, "copy", src, dst), "failed", src, dst) EXCEPT
                   !.step = @ + 1,
                   !.files = PutFile(@, dst, Overlay(Existing(@, dst),
                                         Torn(Pieces(@[src], skip, seek, length))))],
               "CopyFailure", "io error")
    ELSE [Note(m, "copy", src, dst) EXCEPT
             !.step = @ + 1,
             !.files = PutFile(@, dst, Overlay(Existing(@, dst),
                                               Pieces(@[src], skip, seek, length)))]

(* ------------------- Disk._get_part_image (stage) ---------------------- *)

Supported(fstype, accepted) == \E f \in accepted : StartsWith(fstype, f)

\* engine.py:126: the name is cached once the copy has returned
Cached(m, pnum, tmp) ==
    IF m.err # "" THEN [m EXCEPT !.created = @ \cup {<<pnum, tmp>>}]
    ELSE [m EXCEPT !.created = @ \cup {<<pnum, tmp>>}, !.ret = tmp,
             !.partimages = [q \in DOMAIN @ \cup {pnum} |-> IF q = pnum THEN tmp ELSE @[q]]]

\* engine.py:122-125: the temporary file's name is reserved and the file
\* closed, which deletes it; sparse_copy then creates the file under that
\* name
Extracted(m, pnum) ==
    Cached(sparse_copy([Note(Note(m, "stage", pnum, "extract"), "mktemp", pnum,
                             Tmp(m.nextTmp)) EXCEPT !.nextTmp = @ + 1],
                       IMAGE, Tmp(m.nextTmp), partitions[pnum].start, 0,
                       partitions[pnum].size),
           pnum, Tmp(m.nextTmp))

\* staging without the check of the filesystem type
_get_part_imageAnyFstype(m, pnum) ==
    IF m.err # "" THEN m
    ELSE IF pnum \notin DOMAIN partitions
    THEN Raise(Note(m, "stage", pnum, "failed"), "PartitionNotFound", pnum)
    ELSE IF pnum \notin DOMAIN m.partimages
    THEN Extracted(m, pnum)
    ELSE [Note(m, "stage", pnum, "cached") EXCEPT !.ret = m.partimages[pnum]]

_get_part_image(m, pnum) ==
    IF m.err # "" THEN m
    ELSE IF pnum \notin DOMAIN partitions
    THEN Raise(Note(m, "stage", pnum, "failed"), "PartitionNotFound", pnum)
    ELSE IF ~Supported(partitions[pnum].fstype, fstypes)
    THEN Raise(Note(m, "stage", pnum, "failed"), "UnsupportedFilesystem", pnum)
    ELSE IF pnum \notin DOMAIN m.partimages
    THEN Extracted(m, pnum)
    ELSE [Note(m, "stage", pnum, "cached") EXCEPT !.ret = m.partimages[pnum]]

\* a tool run on the staging file of a partition
ExecStaged(m, pnum, tool, arg) == ExecOn(_get_part_image(m, pnum), tool, arg)

(* ------------------- Disk._put_part_image (flush) ---------------------- *)

\* no flush at all
_put_part_imageSkipped(m, pnum) == m

\* a flush that is made whether the steps before it have failed or not
_put_part_imageAlways(m, pnum) ==
    IF pnum \notin DOMAIN m.partimages THEN m
    ELSE [sparse_copy(Note([m EXCEPT !.err = ""], "flush", pnum, m.partimages[pnum]),
                      m.partimages[pnum], IMAGE, 0, partitions[pnum].start, 0)
             EXCEPT !.err = m.err, !.errout = m.errout]

_put_part_image(m, pnum) ==
    IF m.err # "" THEN m
    ELSE sparse_copy(Note(m, "flush", pnum, m.partimages[pnum]),
                     m.partimages[pnum], IMAGE, 0, partitions[pnum].start, 0)

(* ----------------------------- Disk.dir -------------------------------- *)

dir(m, pnum, path) ==
    IF m.err # "" THEN m
    ELSE IF pnum \notin DOMAIN partitions
    THEN Raise(m, "PartitionNotFound", pnum)
    ELSE ExecStaged(m, pnum,
                    IF StartsWith(partitions[pnum].fstype, "ext") THEN "debugfs-ls"
                    ELSE "mdir",
                    path)

(* -------------------------- Disk.remove_ext ---------------------------- *)

\* subdir.split(':')[1].split(" ", 1)[1]: the text between the first and the
\* second colon of the line, from after its first space on
ParseLsName(line) ==
    LET c1 == FirstIdx(line, ":", 1)
        c2 == FirstIdx(line, ":", c1 + 1)
        seg == SubSeq(line, c1 + 1, c2 - 1)
        sp == FirstIdx(seg, " ", 1)
    IN  SubSeq(seg, sp + 1, Len(seg))

IsRmLine(l) == l.tag = "rm:"

\* engine.py:204-210: the checks on the output of rmdir, line by line
RECURSIVE CheckRmdir(_, _)
CheckRmdir(m, lines) ==
    IF m.err # "" \/ lines = <<>> THEN m
    ELSE IF Head(lines).text = "directory not empty"
    THEN Raise(m, "DirectoryNotEmpty", Head(lines).text)
    ELSE IF Head(lines).tag = "rmdir:"
    THEN Raise(m, "RemoveFailed", Head(lines).text)
    ELSE CheckRmdir(m, Tail(lines))

\* the output of rmdir taken to be clean
CheckedNothing(m) == m

Checked(m) == IF m.err # "" THEN m ELSE CheckRmdir(m, m.ret)

RECURSIVE remove_ext(_, _, _, _), RemoveEntries(_, _, _, _, _)

\* engine.py:194-197: the loop over the listing of a directory
RemoveEntries(m, pnum, path, lines, recursive) ==
    IF m.err # "" \/ lines = <<>> THEN m
    ELSE RemoveEntries(
             IF ParseLsName(Head(lines)) # Dot /\ ParseLsName(Head(lines)) # DotDot
             THEN remove_ext(m, pnum, path \o <<ParseLsName(Head(lines))>>, recursive)
             ELSE m,
             pnum, path, Tail(lines), recursive)

\* engine.py:192-193: the listing without its first line
RemoveListed(m, pnum, path, recursive) ==
    IF m.err # "" THEN m
    ELSE RemoveEntries(m, pnum, path, Tail(m.ret), recursive)

\* engine.py:186-214: the lines of the output of rm
AfterRm(m, pnum, path, recursive) ==
    IF m.err # "" \/ SelectSeq(m.ret, IsRmLine) = <<>> THEN m
    ELSE IF SelectSeq(m.ret, IsRmLine)[1].text = "file is a directory"
    THEN Checked(ExecStaged(IF recursive
                            THEN RemoveListed(dir(m, pnum, path), pnum, path, recursive)
                            ELSE m,
                            pnum, "debugfs-rmdir", path))
    ELSE Raise(m, "RemoveFailed", SelectSeq(m.ret, IsRmLine)[1].text)

remove_ext(m, pnum, path, recursive) ==
    AfterRm(ExecStaged(m, pnum, "debugfs-rm", path), pnum, path, recursive)

(* ---------------------------- Disk.remove ------------------------------ *)

Caught(m) == [m EXCEPT !.err = "", !.errout = ""]

\* a fallback that takes the failure of mdel to be the end of it
MdelFallbackSwallows(m, partimg, path) ==
    IF m.err = "ToolExecutionFailure" THEN Caught(m) ELSE m

\* the texts engine.py:227 looks for, as the output of a tool and as the
\* characters of a name
Phrases ==
    {[text |-> "not found", chars |-> <<"n", "o", "t", " ", "f", "o", "u", "n", "d">>],
     [text |-> "non empty", chars |-> <<"n", "o", "n", " ", "e", "m", "p", "t", "y">>]}

\* phrase in str(err): misc.py:105-106 builds the text of the error from the
\* command line as it was given, the status and the output, so that a phrase
\* is found in the output or in the path of the command.  The names of the
\* tool and of the staging file hold no blank.
InErr(phrase, path, out) ==
    \/ out = phrase.text
    \/ \E i \in DOMAIN path : \E k \in 0..(Len(path[i]) - Len(phrase.chars)) :
          SubSeq(path[i], k + 1, k + Len(phrase.chars)) = phrase.chars

\* engine.py:226-234: the fallback to mdeltree
MdelFallback(m, partimg, path) ==
    IF m.err = "ToolExecutionFailure"
       /\ \E phrase \in Phrases : InErr(phrase, path, m.errout)
    THEN exec_cmd(Caught(m), "mdeltree", partimg, path)
    ELSE m

\* engine.py:219-235, once the partition is staged
RemoveStaged(m, pnum, path, recursive) ==
    IF m.err # "" THEN m
    ELSE IF StartsWith(partitions[pnum].fstype, "ext")
    THEN _put_part_image(remove_ext(m, pnum, path, recursive), pnum)
    ELSE _put_part_image(MdelFallback(exec_cmd(m, "mdel", m.ret, path), m.ret, path), pnum)

remove(m, pnum, path, recursive) ==
    RemoveStaged(_get_part_image(m, pnum), pnum, path, recursive)

(* ----------------------------- Disk.copy ------------------------------- *)

\* `into`: a local file `name` is copied to the directory `path` of the
\* partition; otherwise `path` of the partition is copied out
copy(m, pnum, into, path, name) ==
    IF pnum \notin DOMAIN partitions
    THEN Raise(m, "KeyError", pnum)
    ELSE _put_part_image(
             IF StartsWith(partitions[pnum].fstype, "ext")
             THEN IF into
                  THEN ExecStaged(m, pnum, "debugfs-write", [dir |-> path, name |-> name])
                  ELSE ExecStaged(m, pnum, "debugfs-dump", path)
             ELSE IF into
                  THEN ExecStaged(m, pnum, "mcopy-in", [dir |-> path, name |-> name])
                  ELSE ExecStaged(m, pnum, "mcopy-out", path),
             pnum)

(* ---------------------------- Disk.__del__ ----------------------------- *)

\* os.unlink of every cached staging file
StagedPaths(pi) == {pi[p] : p \in DOMAIN pi}

(* ----------------------------- Disk.write ------------------------------ *)

\* engine.py:293-305: the sizes of the plan.  The state of the loop is the
\* document, the pool `free`, and the set of auto-resize indices.
RECURSIVE PlanSizes(_, _, _, _, _)
\* a plan value of 0 taken as a size like any other
PlanSizesZeroExplicit(parts, num, plan, free, auto) ==
    IF num > Len(parts) THEN [parts |-> parts, free |-> free, auto |-> auto]
    ELSE IF num \in DOMAIN plan
    THEN PlanSizes([parts EXCEPT ![num].size = plan[num] \div LSectorSize], num + 1, plan,
                   free - ((plan[num] \div LSectorSize) - parts[num].size), auto)
    ELSE IF parts[num].type # "f"
    THEN PlanSizes(parts, num + 1, plan, free, auto \cup {num})
    ELSE PlanSizes(parts, num + 1, plan, free, auto)

PlanSizes(parts, num, plan, free, auto) ==
    IF num > Len(parts) THEN [parts |-> parts, free |-> free, auto |-> auto]
    ELSE IF num \in DOMAIN plan
    THEN IF plan[num] # 0
         THEN LET sectors == plan[num] \div LSectorSize
              IN  PlanSizes([parts EXCEPT ![num].size = sectors], num + 1, plan,
                            free - (sectors - parts[num].size), auto)
         ELSE PlanSizes(parts, num + 1, plan, free, auto)
    ELSE IF parts[num].type # "f"
    THEN PlanSizes(parts, num + 1, plan, free, auto \cup {num})
    ELSE PlanSizes(parts, num + 1, plan, free, auto)

\* a share-out that hands the remainder of the pool to the first
\* auto-resize partition
ShareOutUneven(parts, free, auto) ==
    [i \in 1..Len(parts) |->
        IF i \in auto
        THEN [parts[i] EXCEPT !.size = @ + (free \div Cardinality(auto))
                                        + (IF \A k \in auto : i <= k
                                           THEN free % Cardinality(auto) ELSE 0)]
        ELSE parts[i]]

\* engine.py:307-309: every auto-resize partition grows by free // count
ShareOut(parts, free, auto) ==
    [i \in 1..Len(parts) |->
        IF i \in auto
        THEN [parts[i] EXCEPT !.size = @ + (free \div Cardinality(auto))]
        ELSE parts[i]]

Shared(p) == [parts |-> ShareOut(p.parts, p.free, p.auto), free |-> p.free, auto |-> p.auto]

Expanded(parts, plan, free) == Shared(PlanSizes(parts, 1, plan, free, {}))

read_ptable(m, path) == exec_cmd(m, "sfdisk-J", path, "")

write_ptable(m, parts, target, capacity) ==
    IF m.err # "" THEN m
    ELSE exec_cmd(Note(m, "table", target, parts), "sfdisk-write", target,
                  [script |-> write_sfdisk_script(parts), capacity |-> capacity])

\* engine.py:332-334: the name of a temporary file that is deleted at once
Scratch(m, pnum) ==
    [Note(m, "scratch", pnum, Tmp(m.nextTmp)) EXCEPT !.nextTmp = @ + 1]

\* the filesystem resized with no check ahead of it
ExtResizedUnchecked(m, part, partfname) ==
    IF m.err # "" THEN m
    ELSE exec_cmd(sparse_copy(m, m.ret, partfname, 0, 0, 0),
                  "resize2fs", partfname, part.size)

\* engine.py:339-342, once the partition is staged
ExtResized(m, part, partfname) ==
    IF m.err # "" THEN m
    ELSE exec_cmd(exec_cmd(sparse_copy(m, m.ret, partfname, 0, 0, 0),
                           "e2fsck", partfname, ""),
                  "resize2fs", partfname, part.size)

\* the check and the resize run on the staging file, which is then copied
ExtResizedInPlace(m, part, pnum, partfname) ==
    IF m.err # "" THEN m
    ELSE sparse_copy(exec_cmd(exec_cmd(m, "e2fsck", m.partimages[pnum], ""),
                              "resize2fs", m.partimages[pnum], part.size),
                     m.partimages[pnum], partfname, 0, 0, 0)

\* the partition resized where it is staged
ResizeExtInPlace(m, part, pnum, partfname) ==
    ExtResizedInPlace(_get_part_image(m, pnum), part, pnum, partfname)

\* engine.py:336-342
ResizeExt(m, part, pnum, partfname) ==
    ExtResized(_get_part_image(m, pnum), part, partfname)

\* engine.py:351-360, with the content in the temporary directory
FatCopied(m, part, pnum, partfname) ==
    IF m.err # "" THEN m
    ELSE exec_cmd(exec_cmd(m, "mkdosfs", partfname,
                           [label |-> part.name, blocks |-> part.size]),
                  "mcopy-in-all", partfname, TreeIn(m.files, m.partimages[pnum]))

\* engine.py:343-360: the content goes to a temporary directory and from
\* there into the new filesystem
ResizeFat(m, part, pnum, partfname) ==
    FatCopied(ExecStaged(m, pnum, "mcopy-out-all", ""), part, pnum, partfname)

\* engine.py:366-370, with the output of blkid
Swapped(m, part, pnum, partfname) ==
    IF m.err # "" THEN m
    ELSE IF m.ret[1] = "" THEN Raise(m, "ValueError", "substring not found")
    ELSE exec_cmd([Note(m, "truncate", pnum, partfname) EXCEPT
                      !.files = PutFile(@, partfname,
                                        OneExtent(part.size * LSectorSize, Zeros))],
                  "mkswap", partfname, [label |-> part.name, uuid |-> m.ret[1]])

\* engine.py:361-370
ResizeSwap(m, part, pnum, partfname) ==
    Swapped(ExecStaged(m, pnum, "blkid", ""), part, pnum, partfname)

\* engine.py:371-372
Placed(m, pnum, partfname) ==
    IF m.err # "" THEN m
    ELSE [Note(m, "unlink", pnum, partfname) EXCEPT !.files = Unlinked(@, {partfname})]

\* engine.py:328-372: a partition whose size has changed; m is the state
\* before the scratch name is taken
WriteResized(m, part, pnum, fstype, target) ==
    Placed(sparse_copy(IF StartsWith(fstype, "ext")
                       THEN ResizeExt(Scratch(m, pnum), part, pnum, Tmp(m.nextTmp))
                       ELSE IF StartsWith(fstype, "fat")
                       THEN ResizeFat(Scratch(m, pnum), part, pnum, Tmp(m.nextTmp))
                       ELSE ResizeSwap(Scratch(m, pnum), part, pnum, Tmp(m.nextTmp)),
                       Tmp(m.nextTmp), target, 0, part.start * LSectorSize, 0),
           pnum, Tmp(m.nextTmp))

\* an unchanged partition put where it starts in the source
WriteUnchangedAtSourceStart(m, part, pnum, target) ==
    IF m.err # "" THEN m
    ELSE sparse_copy(Note(m, "unchanged", pnum, partitions[pnum].start \div LSectorSize),
                     m.ret, target, 0, partitions[pnum].start, 0)

\* engine.py:322-326: an unchanged partition
WriteUnchanged(m, part, pnum, target) ==
    IF m.err # "" THEN m
    ELSE sparse_copy(Note(m, "unchanged", pnum, part.start), m.ret, target, 0,
                     part.start * LSectorSize, 0)

\* a changed partition of a filesystem the engine cannot resize ends the
\* write
WritePartRefuses(m, part, pnum, target) ==
    IF pnum \notin DOMAIN partitions THEN Raise(m, "KeyError", pnum)
    ELSE IF part.size = partitions[pnum].size \div LSectorSize
    THEN WriteUnchanged(_get_part_image(m, pnum), part, pnum, target)
    ELSE IF StartsWith(partitions[pnum].fstype, "ext")
            \/ StartsWith(partitions[pnum].fstype, "fat")
            \/ StartsWith(partitions[pnum].fstype, "linux-swap")
    THEN WriteResized(Note(m, "resized", pnum, part.start), part, pnum,
                      partitions[pnum].fstype, target)
    ELSE IF part.type # "f"
    THEN Raise(Note(m, "warning", pnum, partitions[pnum].fstype),
               "UnsupportedFilesystem", pnum)
    ELSE m

\* engine.py:319-374: one entry of the re-read table
WritePart(m, part, pnum, target) ==
    IF pnum \notin DOMAIN partitions THEN Raise(m, "KeyError", pnum)
    ELSE IF part.size = partitions[pnum].size \div LSectorSize
    THEN WriteUnchanged(_get_part_image(m, pnum), part, pnum, target)
    ELSE IF StartsWith(partitions[pnum].fstype, "ext")
            \/ StartsWith(partitions[pnum].fstype, "fat")
            \/ StartsWith(partitions[pnum].fstype, "linux-swap")
    THEN WriteResized(Note(m, "resized", pnum, part.start), part, pnum,
                      partitions[pnum].fstype, target)
    ELSE IF part.type # "f"
    THEN Note(m, "warning", pnum, partitions[pnum].fstype)
    ELSE m

\* engine.py:318: the loop over the entries of the re-read table
RECURSIVE WriteParts(_, _, _, _)
WriteParts(m, parts, num, target) ==
    IF m.err # "" \/ num > Len(parts) THEN m
    ELSE WriteParts(WritePart(m, parts[num], Str(num), target), parts, num + 1, target)

\* engine.py:315-318
Reread(m, target) ==
    IF m.err # "" THEN m
    ELSE WriteParts(Note(m, "reread", target, m.ret), m.ret, 1, target)

\* engine.py:293-315, with the plan worked out
Resized(m, x, free, source, target, capacity) ==
    Reread(read_ptable(write_ptable(Note(m, "sizes",
                                         [free |-> free, pool |-> x.free,
                                          auto |-> x.auto, source |-> source],
                                         x.parts),
                                    x.parts, target, capacity),
                       target),
           target)

\* engine.py:283-291: the free space figure of the output, aligned down
FreeOf(out) == out[1] - (out[1] % AlignSectors)

\* a missing figure taken to be no free space
PlannedFreeZero(m, parts, target, plan, capacity) ==
    IF m.err # "" THEN m
    ELSE Resized(m, Expanded(parts, plan, IF m.ret = <<>> THEN 0 ELSE FreeOf(m.ret)),
                 IF m.ret = <<>> THEN 0 ELSE FreeOf(m.ret), parts, target, capacity)

\* engine.py:284-312, with the output of sfdisk -F
Planned(m, parts, target, plan, capacity) ==
    IF m.err # "" THEN m
    ELSE IF m.ret = <<>>
    THEN Raise(m, "InsufficientFreeSpace", "Can't get size of unpartitioned space")
    ELSE Resized(m, Expanded(parts, plan, FreeOf(m.ret)), FreeOf(m.ret), parts, target,
                 capacity)

\* the free space is asked for with no table written
FirstTableSkipped(m, target, plan, capacity, figure) ==
    IF m.err # "" THEN m
    ELSE Planned(exec_cmd(m, "sfdisk-F", target, [capacity |-> capacity, figure |-> figure]),
                 m.ret, target, plan, capacity)

\* engine.py:281-285, with the table document of the source
FirstTable(m, target, plan, capacity, figure) ==
    IF m.err # "" THEN m
    ELSE Planned(exec_cmd(write_ptable(m, m.ret, target, capacity), "sfdisk-F", target,
                          [capacity |-> capacity, figure |-> figure]),
                 m.ret, target, plan, capacity)

\* engine.py:275-374: the expand mode
writeExpand(m, target, plan, capacity, figure) ==
    FirstTable(read_ptable(sparse_copy(m, IMAGE, target, 0, 0, BootSectors * LSectorSize),
                           IMAGE),
               target, plan, capacity, figure)

\* a write that goes through the expand steps whatever the mode
writeAlwaysExpands(m, target, expand, plan, capacity, figure) ==
    writeExpand(m, target, plan, capacity, figure)

write(m, target, expand, plan, capacity, figure) ==
    IF ~expand
    THEN sparse_copy(m, IMAGE, target, 0, 0, 0)
    ELSE writeExpand(m, target, plan, capacity, figure)

(* ------------------------- the state machine --------------------------- *)

\* the two configurations the commands construct the engine with
\* (engine.py:35 and engine.py:414)
FsTypeSets == {{"fat", "ext"}, {"fat", "ext", "linux-swap"}}

PNumInputs == {"1", "2", "3"}
PathInputs == {<<NameA>>, <<NameB>>, <<NameA, NameA>>}
\* a failure is injected only where the handler gets as far as the failing
\* step
MayFail(failAt) == failAt = 0 \/ faults < MaxFaults
Fires(m) == m.failAt = 0 \/ m.step >= m.failAt
NoPlan == [n \in {} |-> 0]

\* the multiplier of the size suffix M (CLI.py:194)
MiB == 1048576
\* the expand plans: partition index -> bytes, {} for "auto"
Plan1(n, bytes) == [i \in {n} |-> bytes]
Plan2(n, bytes, k, more) == [i \in {n, k} |-> IF i = n THEN bytes ELSE more]
PlanInputs ==
    {NoPlan, Plan1(1, 0), Plan1(1, MiB), Plan1(1, 2 * MiB + 100), Plan1(2, 3 * MiB),
     Plan1(1, 64 * MiB), Plan2(1, 2 * MiB, 2, 3 * MiB), Plan2(1, 0, 2, 3 * MiB),
     Plan1(2, 100), Plan1(3, 3 * MiB), Plan1(5, 3 * MiB)}
\* the sectors of the target beyond the end of the source's last partition
ExtraInputs == {0, 3000, 4096, 8193}

Op(name, pnum, path, flag, expand, plan, failAt) ==
    [op |-> name, pnum |-> pnum, path |-> path, flag |-> flag,
     expand |-> expand, plan |-> plan, failAt |-> failAt]

\* the fields Disk.__init__ sets ahead of reading the table, over an image
Fields(src, accepted, parts, op) ==
    /\ files = [f \in {IMAGE} |-> BuildImage(src[1], src[2])]
    /\ partitions = parts
    /\ precache = [p \in {} |-> IMAGE]
    /\ fstypes = accepted
    /\ partimages = [p \in {} |-> IMAGE]
    /\ nextTmp = 1
    /\ created = {}
    /\ lastOp = Op(op, "", <<>>, FALSE, FALSE, NoPlan, 0)
    /\ pre = files
    /\ log = <<>>
    /\ result = [err |-> "", out |-> ""]
    /\ nops = 0
    /\ faults = 0
    /\ disposed = FALSE

Init ==
    \E src \in SourceImages(MaxDepth), accepted \in FsTypeSets :
        Fields(src, accepted, get_partitions(PartedOutput(src[1], <<>>, TRUE)), "init")

\* the handler has run to its return or to its exception
Commit(m, op) ==
    /\ files' = m.files
    /\ partimages' = m.partimages
    /\ nextTmp' = m.nextTmp
    /\ created' = m.created
    /\ log' = m.log
    /\ result' = [err |-> m.err, out |-> m.errout]
    /\ lastOp' = op
    /\ pre' = files
    /\ precache' = partimages
    /\ nops' = nops + 1
    /\ faults' = IF m.failAt = 0 THEN faults ELSE faults + 1
    /\ UNCHANGED <<partitions, fstypes, disposed>>

\* an engine exists: its constructor has returned
Ready ==
    /\ ~disposed
    /\ nops < MaxOps
    /\ lastOp.op # "none"
    /\ ~(lastOp.op = "new" /\ result.err # "")

Dir ==
    /\ Ready
    /\ \E pnum \in PNumInputs, path \in {<<>>, <<NameA>>}, failAt \in 0..MaxFail :
          /\ MayFail(failAt)
          /\ \E m \in {dir(Start(failAt), pnum, path)} :
                Fires(m) /\ Commit(m, Op("dir", pnum, path, FALSE, FALSE, NoPlan, failAt))

Copy ==
    /\ Ready
    /\ \E pnum \in PNumInputs, into \in BOOLEAN, path \in {<<NameA>>},
          failAt \in 0..MaxFail :
          /\ MayFail(failAt)
          /\ \E m \in {copy(Start(failAt), pnum, into, path, NameB)} :
                Fires(m) /\ Commit(m, Op("copy", pnum, path, into, FALSE, NoPlan, failAt))

\* the paths to remove: those of the other operations and one whose name
\* holds a blank
Remove ==
    /\ Ready
    /\ \E pnum \in PNumInputs, path \in PathInputs \cup {<<NamePhrase>>}, recursive \in BOOLEAN,
          failAt \in 0..MaxFail :
          /\ MayFail(failAt)
          /\ \E m \in {remove(Start(failAt), pnum, path, recursive)} :
                Fires(m) /\ Commit(m, Op("remove", pnum, path, recursive, FALSE, NoPlan, failAt))

\* the target is written once; its capacity is the end of the source's last
\* partition plus `extra` sectors
Write ==
    /\ Ready
    /\ TARGET \notin DOMAIN files
    /\ \E expand \in BOOLEAN, plan \in PlanInputs, extra \in ExtraInputs,
          figure \in BOOLEAN, failAt \in 0..MaxWriteFail :
          /\ MayFail(failAt)
          /\ expand \/ (plan = NoPlan /\ extra = 0 /\ figure)
          /\ \E m \in {write(Start(failAt), TARGET, expand, plan,
                              EndOf(TableOf(files[IMAGE])) + extra, figure)} :
                Fires(m) /\ Commit(m, Op("write", "", <<extra>>, figure, expand, plan, failAt))

Dispose ==
    /\ ~disposed
    /\ lastOp.op # "none"
    /\ disposed' = TRUE
    /\ files' = Unlinked(files, StagedPaths(partimages))
    /\ lastOp' = Op("del", "", <<>>, FALSE, FALSE, NoPlan, 0)
    /\ pre' = files
    /\ precache' = partimages
    /\ log' = <<>>
    /\ UNCHANGED <<partitions, fstypes, partimages, nextTmp, created, result,
                   nops, faults>>

Next == Dir \/ Copy \/ Remove \/ Dispose

Spec == Init /\ [][Next]_vars

\* writing an image to a target, before or after a listing
NextWrite == Dir \/ Write \/ Dispose

SpecWrite == Init /\ [][NextWrite]_vars

\* the engine's construction over what parted prints for the image
InitNew ==
    \E src \in SourceImages(MaxDepth), accepted \in FsTypeSets :
        Fields(src, accepted, [p \in {} |-> 0], "none")

\* Disk.__init__ from the call of get_partitions on: parted runs, exec_cmd
\* raises on its nonzero status, the output is parsed
New ==
    /\ lastOp.op = "none"
    /\ \E diags \in {<<>>, <<Diagnostic>>, <<Diagnostic, Diagnostic>>}, marker \in BOOLEAN, ret \in {0, 1} :
         LET out == PartedOutput(TableOf(files[IMAGE]), diags, marker)
             parsed == ParseOutput(out)
             err == IF ret # 0 THEN "ToolExecutionFailure" ELSE parsed.err
         IN
           /\ ret # 0 => ~marker
           /\ lastOp' = Op("new", "", <<>>, FALSE, FALSE, NoPlan, ret)
           /\ log' = <<Event("exec", "parted", out)>>
                       \o (IF ret # 0 THEN <<Event("failed", "parted", out)>>
                           ELSE IF err # "" THEN <<>>
                           ELSE <<Event("records", parsed.lsector_size, parsed.records)>>)
           /\ result' = [err |-> err, out |-> ""]
           /\ partitions' = IF err = "" THEN ByNumber(parsed.records) ELSE partitions
           /\ pre' = files
           /\ precache' = partimages
           /\ UNCHANGED <<files, fstypes, partimages, nextTmp, created, nops, faults,
                          disposed>>

NextNew == New \/ Dir \/ Dispose

SpecNew == InitNew /\ [][NextNew]_vars

(* ------------------------------ properties ----------------------------- *)

HasEvent(ev) == \E i \in DOMAIN log : log[i].ev = ev
EventsOf(ev) == SelectSeq(log, LAMBDA e : e.ev = ev)
Did(op) == lastOp.op = op
Succeeded == result.err = ""

\* C1: a write without an expand plan that returns leaves the target a
\* byte-identical copy of the whole source image, and a write without an
\* expand plan, returning or failing, makes one copy and nothing else: it
\* writes no partition table, stages no partition, resizes nothing and runs
\* no tool.
C1_VerbatimWrite ==
    (Did("write") /\ ~lastOp.expand) =>
        /\ \A i \in DOMAIN log : log[i].ev \in {"copy", "failed"}
        /\ Len(EventsOf("copy")) = 1
        /\ files[IMAGE] = pre[IMAGE]
        /\ Succeeded => files[TARGET] = pre[IMAGE]

C1_Witness ==
    /\ Did("write") /\ ~lastOp.expand /\ Succeeded
    /\ Cardinality(files[TARGET]) > 2
    /\ files[TARGET] = files[IMAGE]

\* the partition an operation names, as the engine sees it
OnPartition(prefix) ==
    /\ lastOp.pnum \in DOMAIN partitions
    /\ Supported(partitions[lastOp.pnum].fstype, fstypes)
    /\ StartsWith(partitions[lastOp.pnum].fstype, prefix)

\* the partition's bytes inside a full image
PartitionIn(image, pnum) == At(image, partitions[pnum].start)

\* the directory tree of the partition before the operation: the tree of the
\* staging copy when the partition was staged already, the tree inside the
\* full image otherwise
PreTree(pnum) ==
    IF pnum \in DOMAIN precache
    THEN TreeIn(pre, precache[pnum])
    ELSE PartitionIn(pre[IMAGE], pnum).data.tree

StagingUntouched(pnum) ==
    (pnum \in DOMAIN partimages /\ partimages[pnum] \in DOMAIN files) =>
        TreeIn(files, partimages[pnum]) = PreTree(pnum)

NonEmptyDir(t, path) == path \in DOMAIN t /\ t[path] = "d" /\ Children(t, path) # {}

\* C5: remove without the recursive flag on a non-empty directory of an ext
\* partition raises the directory-not-empty error (an injected tool or copy
\* failure raises its own error instead), deletes nothing from the staging
\* copy or from the full image, and does not flush.
C5_NonRecursiveKeepsDirectory ==
    (Did("remove") /\ ~lastOp.flag /\ OnPartition("ext")
        /\ NonEmptyDir(PreTree(lastOp.pnum), lastOp.path)) =>
        /\ ~Succeeded
        /\ lastOp.failAt = 0 => result.err = "DirectoryNotEmpty"
        /\ StagingUntouched(lastOp.pnum)
        /\ files[IMAGE] = pre[IMAGE]
        /\ ~HasEvent("flush")

C5_Witness ==
    /\ Did("remove") /\ ~lastOp.flag /\ OnPartition("ext")
    /\ NonEmptyDir(PreTree(lastOp.pnum), lastOp.path)
    /\ result.err = "DirectoryNotEmpty"
    /\ HasEvent("exec")

\* C6: remove with the recursive flag on a directory of an ext partition
\* returns, with the directory and everything below it gone from the staging
\* copy, and flushes.
C6_RecursiveRemovesTree ==
    (Did("remove") /\ lastOp.flag /\ lastOp.failAt = 0 /\ OnPartition("ext")
        /\ NonEmptyDir(PreTree(lastOp.pnum), lastOp.path)) =>
        /\ Succeeded
        /\ Subtree(TreeIn(files, partimages[lastOp.pnum]), lastOp.path) = {}
        /\ HasEvent("flush")

\* C7: remove on a path the partition does not hold never returns: on an ext
\* partition it raises RemoveFailed with the line debugfs printed, on a FAT
\* partition it raises the not-found error of mdeltree, run after mdel has
\* failed; the staging copy and the full image are left as they were.
C7_RemoveMissingFails ==
    (Did("remove") /\ lastOp.pnum \in DOMAIN partitions
        /\ Supported(partitions[lastOp.pnum].fstype, fstypes)
        /\ lastOp.path \notin DOMAIN PreTree(lastOp.pnum)) =>
        /\ ~Succeeded
        /\ files[IMAGE] = pre[IMAGE]
        /\ StagingUntouched(lastOp.pnum)
        /\ ~HasEvent("flush")
        /\ (lastOp.failAt = 0 /\ OnPartition("ext")) =>
              /\ result.err = "RemoveFailed"
              /\ result.out = "File not found by ext2_lookup"
        /\ (lastOp.failAt = 0 /\ OnPartition("fat")) =>
              /\ result.err = "ToolExecutionFailure"
              /\ result.out = "not found"
              /\ \E i \in DOMAIN log : log[i].ev = "failed" /\ log[i].tool = "mdeltree"

C7_WitnessExt ==
    /\ Did("remove") /\ OnPartition("ext")
    /\ lastOp.path \notin DOMAIN PreTree(lastOp.pnum)
    /\ result.err = "RemoveFailed"

C7_Witness ==
    /\ Did("remove") /\ OnPartition("fat")
    /\ lastOp.path \notin DOMAIN PreTree(lastOp.pnum)
    /\ result.out = "not found"
    /\ \E i \in DOMAIN log : log[i].ev = "failed" /\ log[i].tool = "mdeltree"

StagedFor(pnum) == {c \in created : c[1] = pnum}

\* C8: whatever the operations were, at most one staging file has been
\* created for each partition number, and an operation extracts a partition
\* from the full image only when no staging file had been created for it.
C8_StageOncePerPartition ==
    /\ \A pnum \in PNumInputs : Cardinality(StagedFor(pnum)) <= 1
    /\ \A i \in DOMAIN log :
          (log[i].ev = "stage" /\ log[i].arg = "extract") =>
              \A c \in StagedFor(log[i].tool) : c[2] \notin DOMAIN pre

\* C9: staging a partition number the table does not hold raises
\* PartitionNotFound, staging a partition whose filesystem type starts with
\* none of the accepted prefixes raises UnsupportedFilesystem; either way no
\* temporary file is created, no file changes, and the cache of staging
\* files is what it was.
C9_StageRefuses ==
    /\ (Did("remove") /\ lastOp.pnum \notin DOMAIN partitions) =>
          result.err = "PartitionNotFound"
    /\ ((Did("remove") \/ Did("dir") \/ Did("copy"))
          /\ lastOp.pnum \in DOMAIN partitions
          /\ ~Supported(partitions[lastOp.pnum].fstype, fstypes)) =>
          result.err = "UnsupportedFilesystem"
    /\ (\E i \in DOMAIN log : log[i].ev = "stage" /\ log[i].arg = "failed") =>
          /\ result.err \in {"PartitionNotFound", "UnsupportedFilesystem"}
          /\ result.err = "PartitionNotFound" <=> lastOp.pnum \notin DOMAIN partitions
          /\ ~HasEvent("mktemp")
          /\ files = pre
          /\ partimages = precache

C9_WitnessAbsent ==
    /\ Did("remove") /\ lastOp.pnum \notin DOMAIN partitions
    /\ result.err = "PartitionNotFound"
    /\ log = <<Event("stage", lastOp.pnum, "failed")>>

C9_Witness ==
    /\ Did("dir") /\ lastOp.pnum \in DOMAIN partitions
    /\ result.err = "UnsupportedFilesystem"
    /\ partitions[lastOp.pnum].fstype = SWAP
    /\ DOMAIN precache # {}

\* C10: once the engine is disposed of, no temporary file that staging
\* created is left.
C10_DisposeDeletesStaging ==
    disposed => \A c \in created : c[2] \notin DOMAIN files

\* the sizes an expanding write has worked out: the aligned free space, the
\* pool left for the auto-resize partitions, their indices, the document of
\* the source, and the document about to be written
Sizing == EventsOf("sizes")[1].tool
Sized == EventsOf("sizes")[1].arg
HasSizing == Did("write") /\ HasEvent("sizes")
Payload(doc) == {i \in 1..Len(doc) : ~IsContainer(doc[i].type)}

RECURSIVE SumOver(_, _)
SumOver(doc, idx) ==
    IF idx = {} THEN 0
    ELSE SumOver(doc, idx \ {CHOOSE i \in idx : TRUE}) + doc[CHOOSE i \in idx : TRUE].size

\* the table an expanding write has read back from the target
TargetTable == EventsOf("reread")[1].arg
SourceTable == TableOf(pre[IMAGE])

Unchanged == {i \in Payload(TargetTable) : TargetTable[i].size = SourceTable[i].size}

\* C2: once an expanding write has read the second table back, staging
\* fails for no partition whose size in that table is its size in the source,
\* whatever its filesystem type, and when the write returns every such
\* partition lies on the target at its start in that table with the bytes it
\* has in the source.
C2_UnchangedCopied ==
    (Did("write") /\ lastOp.expand /\ lastOp.failAt = 0 /\ HasEvent("reread")) =>
        \A i \in Unchanged :
            /\ Event("stage", Str(i), "failed") \notin {log[k] : k \in DOMAIN log}
            /\ Succeeded =>
                  /\ HasAt(files[TARGET], TargetTable[i].start * LSectorSize)
                  /\ At(files[TARGET], TargetTable[i].start * LSectorSize).data
                        = At(pre[IMAGE], SourceTable[i].start * LSectorSize).data

\* C3: the sizes an expanding write puts in the second table add up to no
\* more than the sizes of the source plus the free space found after the
\* first table write.
C3_SizesWithinFreeSpace ==
    HasSizing =>
        SumOver(Sized, Payload(Sized))
            <= SumOver(Sizing.source, Payload(Sizing.source)) + Sizing.free

\* C4: with N >= 1 auto-resize partitions and a pool of P sectors, every
\* auto-resize partition grows by P \div N, the same for all, and what is
\* left of the pool is between 0 and N - 1 sectors.
C4_EvenShares ==
    (HasSizing /\ Sizing.auto # {}) =>
        /\ \A i \in Sizing.auto :
              Sized[i].size - Sizing.source[i].size
                  = Sizing.pool \div Cardinality(Sizing.auto)
        /\ Sizing.pool - Cardinality(Sizing.auto)
                            * (Sizing.pool \div Cardinality(Sizing.auto))
              \in 0..(Cardinality(Sizing.auto) - 1)

C4_Witness ==
    /\ HasSizing /\ Cardinality(Sizing.auto) = 3
    /\ Sizing.pool % 3 # 0
    /\ \A i \in Sizing.auto : Sized[i].size > Sizing.source[i].size

C4_WitnessNegative ==
    /\ HasSizing /\ Sizing.auto # {} /\ Sizing.pool < 0

\* the position in the log of the last event of a kind, 0 when there is none
LastOf(evs) ==
    IF \E i \in DOMAIN log : log[i].ev \in evs
    THEN CHOOSE i \in DOMAIN log :
            log[i].ev \in evs /\ \A k \in DOMAIN log : log[k].ev \in evs => k <= i
    ELSE 0

\* C11: when copy or remove returns, the partition has been flushed after
\* the last tool ran on the staging copy, and the full image holds at the
\* partition's start what the staging copy holds.
C11_FlushAfterMutation ==
    ((Did("copy") \/ Did("remove")) /\ Succeeded) =>
        /\ HasEvent("flush")
        /\ LastOf({"exec"}) < LastOf({"flush"})
        /\ EventsOf("flush")[1].tool = lastOp.pnum
        /\ HasAt(files[IMAGE], partitions[lastOp.pnum].start)
        /\ PartitionIn(files[IMAGE], lastOp.pnum).data
              = DataIn(files, partimages[lastOp.pnum])
        /\ PartitionIn(files[IMAGE], lastOp.pnum).len
              = At(files[partimages[lastOp.pnum]], 0).len

C11_Witness ==
    /\ Did("copy") /\ lastOp.flag /\ Succeeded
    /\ files[IMAGE] # pre[IMAGE]
    /\ PartitionIn(files[IMAGE], lastOp.pnum).data = DataIn(files, partimages[lastOp.pnum])

C11_WitnessRemove ==
    /\ Did("remove") /\ Succeeded
    /\ files[IMAGE] # pre[IMAGE]

\* C12: a copy or remove that ends in a tool execution failure, in
\* RemoveFailed or in the directory-not-empty error has made no flush, and
\* the full image is what it was before the call.
C12_FailureLeavesImage ==
    ((Did("copy") \/ Did("remove"))
        /\ result.err \in {"ToolExecutionFailure", "RemoveFailed", "DirectoryNotEmpty"}) =>
        /\ ~HasEvent("flush")
        /\ files[IMAGE] = pre[IMAGE]

\* a removal that failed after it had changed the staging copy
C12_Witness ==
    /\ Did("remove") /\ result.err = "RemoveFailed"
    /\ lastOp.pnum \in DOMAIN partimages
    /\ TreeIn(files, partimages[lastOp.pnum]) # PreTree(lastOp.pnum)
    /\ files[IMAGE] = pre[IMAGE]

\* C13: an expanding write whose free-space query prints no figure raises
\* InsufficientFreeSpace (an injected failure of an earlier step raises its
\* own error instead); it writes the table at most once, works out no sizes,
\* stages no partition and copies nothing but the first sectors.
C13_NoFigureNoSecondTable ==
    (Did("write") /\ lastOp.expand /\ ~lastOp.flag) =>
        /\ ~Succeeded
        /\ lastOp.failAt = 0 => result.err = "InsufficientFreeSpace"
        /\ Len(EventsOf("table")) <= 1
        /\ Len(EventsOf("copy")) <= 1
        /\ \A i \in DOMAIN log :
              log[i].ev \notin {"sizes", "reread", "stage", "unchanged", "resized", "scratch"}

C13_Witness ==
    /\ Did("write") /\ lastOp.expand /\ ~lastOp.flag
    /\ result.err = "InsufficientFreeSpace"
    /\ \E i \in DOMAIN log : log[i].ev = "exec" /\ log[i].tool = "sfdisk-F"
    /\ TableOf(files[TARGET]) # <<>>

\* the documents handed to the table writes of the operation, in order
TablesWritten == EventsOf("table")

\* C14: in an expanding write no table container is among the auto-resize
\* partitions, none grows by a share of the pool, and the script of each
\* table write has no size on the line of a container.
C14_ContainerNeverSized ==
    (Did("write") /\ lastOp.expand) =>
        /\ \A k \in DOMAIN TablesWritten : \A i \in DOMAIN TablesWritten[k].arg :
              IsContainer(TablesWritten[k].arg[i].type) =>
                  ~write_sfdisk_script(TablesWritten[k].arg)[i].hasSize
        /\ HasSizing =>
              \A i \in DOMAIN Sized :
                  IsContainer(Sizing.source[i].type) =>
                      /\ i \notin Sizing.auto
                      /\ i \notin DOMAIN lastOp.plan =>
                            Sized[i].size = Sizing.source[i].size

\* the partitions the plan gives a size other than 0
Explicit == {i \in DOMAIN lastOp.plan : i \in DOMAIN Sized /\ lastOp.plan[i] # 0}

\* what the explicit sizes of a set of partitions take from the pool
RECURSIVE Deducted(_)
Deducted(idx) ==
    IF idx = {} THEN 0
    ELSE LET i == CHOOSE k \in idx : TRUE
         IN  (lastOp.plan[i] \div LSectorSize) - Sizing.source[i].size + Deducted(idx \ {i})

C15_WitnessMixed ==
    /\ HasSizing
    /\ 1 \in DOMAIN lastOp.plan /\ lastOp.plan[1] = 0
    /\ Explicit # {}

\* the index of a partition number in the table: the inverse of Str
Num(pnum) == CHOOSE i \in 1..9 : Str(i) = pnum

\* the partition the loop of the write is at when it logs event k
PartAt(k) ==
    Num(log[CHOOSE j \in 1..k :
                /\ log[j].ev \in {"unchanged", "resized"}
                /\ \A h \in (j + 1)..k : log[h].ev \notin {"unchanged", "resized"}].tool)

\* C16: in an expanding write, a partition is taken as unchanged exactly
\* when its size in the table read back from the target is its size in the
\* source; the filesystem of a changed partition is resized or rebuilt to
\* the size in that table; and the data of every partition is put on the
\* target at the start it has in that table.
C16_DataFollowsRereadTable ==
    (Did("write") /\ lastOp.expand /\ HasEvent("reread")) =>
        /\ \A k \in DOMAIN log :
              /\ log[k].ev \in {"unchanged", "resized"} =>
                    /\ log[k].arg = TargetTable[Num(log[k].tool)].start
                    /\ log[k].ev = "unchanged" <=>
                          TargetTable[Num(log[k].tool)].size
                              = SourceTable[Num(log[k].tool)].size
              /\ (log[k].ev = "exec" /\ log[k].tool = "resize2fs") =>
                    log[k].arg = TargetTable[PartAt(k)].size
              /\ (log[k].ev = "exec" /\ log[k].tool = "mkdosfs") =>
                    log[k].arg.blocks = TargetTable[PartAt(k)].size
        /\ \A e \in files[TARGET] :
              \/ e.off = 0
              \/ \E i \in DOMAIN TargetTable : e.off = TargetTable[i].start * LSectorSize

\* a partition that keeps its size and moves, and a partition whose size in
\* the table read back is not the size the plan worked out
C16_Witness ==
    /\ Did("write") /\ lastOp.expand /\ HasEvent("reread") /\ Succeeded
    /\ \E k \in DOMAIN log :
          /\ log[k].ev = "unchanged"
          /\ log[k].arg # SourceTable[Num(log[k].tool)].start

C16_WitnessSize ==
    /\ Did("write") /\ lastOp.expand /\ HasEvent("reread")
    /\ \E k \in DOMAIN log :
          /\ log[k].ev = "exec" /\ log[k].tool = "resize2fs"
          /\ log[k].arg # Sized[PartAt(k)].size

\* C17: the construction fails with TableParseError exactly when parted's
\* output, returned by exec_cmd, has no header marker line; with the marker
\* the lines ahead of it are ignored, there is one record per partition line,
\* in the order of the table, each holding that entry's number, start, end,
\* size in bytes and filesystem type, and the engine keeps them by number.
MarkerInOutput == \E i \in DOMAIN log[1].arg : log[1].arg[i] = HeaderMarker
C17_ParseFailsWithoutMarker ==
    lastOp.op = "new" =>
        /\ result.err = "TableParseError" <=> (lastOp.failAt = 0 /\ ~MarkerInOutput)
        /\ (lastOp.failAt = 0 /\ MarkerInOutput) =>
              /\ result.err = ""
              /\ log[2].ev = "records"
              /\ log[2].tool = LSectorSize
              /\ Len(log[2].arg) = Len(TableOf(files[IMAGE]))
              /\ \A k \in DOMAIN log[2].arg :
                    LET e == TableOf(files[IMAGE])[k]
                    IN log[2].arg[k] = [pnum |-> e.pnum, start |-> e.start * LSectorSize,
                                        end |-> (e.start + e.size) * LSectorSize - 1,
                                        size |-> e.size * LSectorSize, fstype |-> e.fstype]
              /\ DOMAIN partitions = {log[2].arg[k].pnum : k \in DOMAIN log[2].arg}
              /\ \A k \in DOMAIN log[2].arg : partitions[log[2].arg[k].pnum] = log[2].arg[k]
C17_Witness ==
    /\ lastOp.op = "new" /\ lastOp.failAt = 0 /\ result.err = ""
    /\ log[1].arg[1] = Diagnostic
    /\ Len(log[2].arg) >= 2
C17_WitnessError ==
    /\ lastOp.op = "new" /\ result.err = "TableParseError"
    /\ Len(log[1].arg) >= 1

\* C18: a tool that exits with a status other than 0 ends the operation with
\* ToolExecutionFailure carrying the tool's output, and the operation runs no
\* tool, copies nothing and flushes nothing after it; the one exception is
\* mdel in remove, whose failure mdeltree may follow.  A tool that exits with
\* status 0 does not end the operation with that error.
ToolFailedAt(i) == i > 1 /\ log[i].ev = "failed" /\ log[i - 1].ev = "exec"
C18_WitnessFallback ==
    /\ Did("remove") /\ Succeeded
    /\ \E i \in DOMAIN log : ToolFailedAt(i) /\ log[i - 1].tool = "mdel"

\* C19: remove on a FAT partition runs mdel first; mdeltree runs exactly
\* when mdel failed with the output 'not found' or 'non empty', and then
\* once; after any other failure of mdel the error raised is the one of
\* mdel, with its output, and mdeltree does not run.
ExecsOf(tool) == {i \in DOMAIN log : log[i].ev = "exec" /\ log[i].tool = tool}
C19_FallbackOnReportOnly ==
    (Did("remove") /\ ExecsOf("mdel") # {}) =>
        /\ Cardinality(ExecsOf("mdel")) = 1
        /\ Cardinality(ExecsOf("mdeltree")) <= 1
        /\ \A i \in ExecsOf("mdel") :
              /\ \A j \in ExecsOf("mdeltree") : i < j
              /\ ExecsOf("debugfs") = {}
              /\ ExecsOf("mdeltree") # {} <=>
                    /\ ToolFailedAt(i + 1)
                    /\ log[i + 1].arg \in {"not found", "non empty"}
              /\ (ToolFailedAt(i + 1) /\ log[i + 1].arg \notin {"not found", "non empty"}) =>
                    /\ result.err = "ToolExecutionFailure"
                    /\ result.out = log[i + 1].arg
                    /\ i + 1 = Len(log)
C19_Witness ==
    /\ Did("remove") /\ ExecsOf("mdeltree") # {}
    /\ \E i \in ExecsOf("mdel") : ToolFailedAt(i + 1) /\ log[i + 1].arg = "non empty"
    /\ Succeeded
C19_Counterexample ==
    (Did("remove") /\ lastOp.path = <<NamePhrase>>) =>
        \A i \in ExecsOf("mdel") :
            (ToolFailedAt(i + 1) /\ log[i + 1].arg = "io error") => ExecsOf("mdeltree") = {}

\* C20: an expanding write runs its steps in this order: the copy of the
\* image's first sectors to the target, the first table write with the
\* document read from the source as it was read, the query of the free space,
\* the second table write with the resized document, the re-read of the
\* target's table, the partitions' data.  Nothing of a partition is staged,
\* copied or rebuilt before the target's table has been read back, and a
\* write that returns has written the table twice.
Where(ev) == {i \in DOMAIN log : log[i].ev = ev}
PartitionStep(i) ==
    \/ log[i].ev \in {"stage", "mktemp", "unchanged", "resized", "scratch", "flush",
                       "warning"}
    \/ log[i].ev = "copy" /\ i > 1
    \/ log[i].ev = "exec" /\ log[i].tool \notin {"sfdisk-J", "sfdisk-write", "sfdisk-F"}
C20_StepsInOrder ==
    (Did("write") /\ lastOp.expand) =>
        /\ log[1] = Event("copy", IMAGE, TARGET)
        /\ Cardinality(Where("table")) <= 2
        /\ Cardinality(ExecsOf("sfdisk-write")) <= Cardinality(Where("table"))
        /\ Cardinality(ExecsOf("sfdisk-F")) <= 1
        /\ Cardinality(Where("reread")) <= 1
        /\ \A t \in Where("table") :
              /\ ExecsOf("sfdisk-J") # {} /\ \A j \in ExecsOf("sfdisk-J") : j >= 2
              /\ \A w \in ExecsOf("sfdisk-write") : \E u \in Where("table") : w = u + 1
              /\ (\A u \in Where("table") : t <= u) =>
                    /\ log[t].tool = TARGET
                    /\ Len(log[t].arg) = Len(SourceTable)
                    /\ \A i \in DOMAIN SourceTable :
                          /\ log[t].arg[i].start = SourceTable[i].start
                          /\ log[t].arg[i].size = SourceTable[i].size
                          /\ log[t].arg[i].type = SourceTable[i].type
                          /\ log[t].arg[i].name = SourceTable[i].name
                          /\ log[t].arg[i].bootable = SourceTable[i].bootable
                    /\ \A f \in ExecsOf("sfdisk-F") : f = t + 2
                    /\ \A j \in ExecsOf("sfdisk-J") : j = t - 1 \/ j > t + 2
              /\ (\E u \in Where("table") : u < t) =>
                    /\ log[t].tool = TARGET /\ log[t].arg = Sized
                    /\ \E f \in ExecsOf("sfdisk-F") : f < t
                    /\ \A r \in Where("reread") : r = t + 3
        /\ ExecsOf("sfdisk-F") # {} => Where("table") # {}
        /\ Where("reread") # {} => Cardinality(Where("table")) = 2
        /\ \A i \in DOMAIN log :
              PartitionStep(i) => \E r \in Where("reread") : r < i
        /\ Succeeded =>
              /\ Cardinality(Where("table")) = 2
              /\ Cardinality(ExecsOf("sfdisk-write")) = 2
              /\ Cardinality(Where("reread")) = 1
C20_Witness ==
    /\ Did("write") /\ lastOp.expand /\ Succeeded
    /\ \E i, j \in DOMAIN log :
          /\ i < j
          /\ log[i].ev = "copy" /\ log[i].arg = TARGET /\ i > 1
          /\ log[j].ev = "exec" /\ log[j].tool = "resize2fs"
    /\ \E t \in Where("table") : \E i \in DOMAIN SourceTable : log[t].arg[i].size # SourceTable[i].size

\* the partitions of the source the plan gives a size other than 0, by
\* partition number, and the place of each in the table
PlannedNumbers ==
    {p \in DOMAIN lastOp.plan :
        lastOp.plan[p] # 0 /\ \E i \in DOMAIN SourceTable : SourceTable[i].pnum = Str(p)}
PlaceOf(p) == CHOOSE i \in DOMAIN SourceTable : SourceTable[i].pnum = Str(p)
RECURSIVE Taken(_)
Taken(ps) ==
    IF ps = {} THEN 0
    ELSE LET p == CHOOSE q \in ps : TRUE
         IN  (lastOp.plan[p] \div LSectorSize) - SourceTable[PlaceOf(p)].size
                + Taken(ps \ {p})
\* the numbers of the table are 1, 2, ... with no gap
Gapless == \A i \in DOMAIN SourceTable : SourceTable[i].pnum = Str(i)

\* C21: the free space an expanding write works with is the unpartitioned
\* space of the target rounded down to a multiple of 2048 sectors; the pool
\* shared among the auto-resize partitions is that less, for every partition
\* the plan gives a size other than 0, the planned size in sectors minus the
\* partition's size in the source; and each such partition has the planned
\* size in sectors in the second table write.
C21_PoolIsFreeLessExplicit ==
    HasSizing =>
        /\ Sizing.free = lastOp.path[1] - (lastOp.path[1] % AlignSectors)
        /\ Sizing.pool = Sizing.free - Taken(PlannedNumbers)
        /\ \A p \in PlannedNumbers :
              Sized[PlaceOf(p)].size = lastOp.plan[p] \div LSectorSize
C21_GaplessHolds == Gapless => C21_PoolIsFreeLessExplicit
C21_Witness ==
    /\ HasSizing /\ Gapless
    /\ lastOp.path[1] % AlignSectors # 0
    /\ Cardinality(PlannedNumbers) = 2
    /\ Taken(PlannedNumbers) # 0

\* C22: in an expanding write the plan's entry for partition number p sets
\* the size of the table entry with number p and of no other, also in a
\* table whose numbers have a gap; and each entry of the table read back is
\* handled under the number it has in the source, so that no lookup of a
\* number the source does not have ends the write.
NumbersOf(table) == {table[i].pnum : i \in DOMAIN table}
C22_PlanAndRecordsByNumber ==
    (Did("write") /\ lastOp.expand) =>
        /\ result.err # "KeyError"
        /\ HasSizing =>
              \A i \in DOMAIN Sized :
                 /\ \A p \in DOMAIN lastOp.plan :
                       Str(p) = SourceTable[i].pnum =>
                          /\ i \notin Sizing.auto
                          /\ lastOp.plan[p] # 0 => Sized[i].size = lastOp.plan[p] \div LSectorSize
                 /\ (\A p \in DOMAIN lastOp.plan : Str(p) # SourceTable[i].pnum) =>
                       Sized[i].size = Sizing.source[i].size
                                          + (IF i \in Sizing.auto
                                             THEN Sizing.pool \div Cardinality(Sizing.auto)
                                             ELSE 0)
        /\ \A k \in DOMAIN log :
              log[k].ev \in {"unchanged", "resized", "warning"} =>
                  log[k].tool \in NumbersOf(SourceTable)
C22_GaplessHolds == Gapless => C22_PlanAndRecordsByNumber
C22_WitnessGapless ==
    /\ Did("write") /\ lastOp.expand /\ Succeeded /\ Gapless
    /\ Len(SourceTable) = 3 /\ 3 \in PlannedNumbers

\* C23: remove without the recursive flag on a directory of an ext
\* partition, empty or not, raises the error that asks for the flag (an
\* injected tool or copy failure raises its own error instead), runs no
\* rmdir, and leaves the directory in the staging copy and in the full
\* image.
C23_NonRecursiveRefusesDirectory ==
    (Did("remove") /\ ~lastOp.flag /\ OnPartition("ext")
        /\ IsDir(PreTree(lastOp.pnum), lastOp.path)) =>
        /\ ~Succeeded
        /\ lastOp.failAt = 0 => result.err = "DirectoryNotEmpty"
        /\ ExecsOf("debugfs-rmdir") = {}
        /\ StagingUntouched(lastOp.pnum)
        /\ files[IMAGE] = pre[IMAGE]
\* the empty directory is removed and the removal flushed
C23_EmptyDirectoryRemoved ==
    /\ Did("remove") /\ ~lastOp.flag /\ OnPartition("ext")
    /\ IsDir(PreTree(lastOp.pnum), lastOp.path)
    /\ ~NonEmptyDir(PreTree(lastOp.pnum), lastOp.path)
    /\ Succeeded /\ HasEvent("flush")
    /\ files[IMAGE] # pre[IMAGE]

\* the steps of the write's loop that name the i-th partition
PartitionEvents == {"stage", "mktemp", "unchanged", "resized", "scratch", "flush", "warning",
                    "truncate", "unlink"}
EventsFor(i) == {k \in DOMAIN log : log[k].ev \in PartitionEvents /\ log[k].tool = Str(i)}
Resizable(fstype) ==
    StartsWith(fstype, "ext") \/ StartsWith(fstype, "fat") \/ StartsWith(fstype, "linux-swap")

\* C24: in an expanding write a partition whose size in the table read back
\* is not its size in the source, whose filesystem is neither ext, FAT nor
\* swap and which is no table container gets a warning and nothing else: it
\* is not staged, none of its data reaches the target, and the write goes on
\* to the next partition or, after the last one, returns.
C24_UnsupportedChangedSkipped ==
    (Did("write") /\ lastOp.expand /\ HasEvent("reread")) =>
        \A i \in DOMAIN TargetTable :
            (/\ TargetTable[i].size # SourceTable[i].size
             /\ ~Resizable(SourceTable[i].fstype)
             /\ ~IsContainer(SourceTable[i].type)) =>
                /\ Cardinality(EventsFor(i)) <= 1
                /\ \A e \in files[TARGET] : e.off # TargetTable[i].start * LSectorSize
                /\ \A k \in EventsFor(i) :
                      /\ log[k].ev = "warning"
                      /\ \/ k = Len(log) /\ i = Len(TargetTable) /\ Succeeded
                         \/ /\ k < Len(log) /\ i < Len(TargetTable)
                            /\ log[k + 1].ev \in PartitionEvents
                            /\ log[k + 1].tool = Str(i + 1)
                /\ Succeeded => EventsFor(i) # {}
C24_Witness ==
    /\ Did("write") /\ lastOp.expand /\ Succeeded
    /\ \E k \in DOMAIN log :
          /\ log[k].ev = "warning" /\ log[k].tool = "2"
          /\ k < Len(log) /\ log[k + 1].tool = "3"

\* what the i-th partition of the source holds
SourceData(i) == At(pre[IMAGE], SourceTable[i].start * LSectorSize).data
ResizedSwap ==
    {i \in DOMAIN TargetTable :
        /\ StartsWith(SourceTable[i].fstype, "linux-swap")
        /\ \E k \in DOMAIN log : log[k].ev = "resized" /\ log[k].tool = Str(i)}

\* C25: when no tool or copy fails and the engine accepts swap (as the one
\* wim_write constructs does), every swap partition an expanding write
\* resizes ends on the target as a swap area of the size of the table read
\* back, in bytes, at the partition's offset, made by mkswap with the label
\* of the table entry and the UUID of the source where there is one, and
\* without them where there is none.
C25_SwapRebuilt ==
    (Did("write") /\ lastOp.expand /\ HasEvent("reread") /\ lastOp.failAt = 0
        /\ "linux-swap" \in fstypes) =>
        \A i \in ResizedSwap :
            /\ \E k \in ExecsOf("mkswap") :
                  log[k].arg = [label |-> TargetTable[i].name, uuid |-> SourceData(i).uuid]
            /\ \E e \in files[TARGET] :
                  /\ e.off = TargetTable[i].start * LSectorSize
                  /\ e.len = TargetTable[i].size * LSectorSize
                  /\ e.data.fs = "swap"
                  /\ e.data.label = TargetTable[i].name
                  /\ e.data.uuid = SourceData(i).uuid
C25_WithUuidHolds ==
    (\A i \in DOMAIN SourceTable :
        StartsWith(SourceTable[i].fstype, "linux-swap") => SourceData(i).uuid # "")
    => C25_SwapRebuilt
C25_WitnessWithUuid ==
    /\ Did("write") /\ lastOp.expand /\ lastOp.failAt = 0
    /\ HasEvent("reread") /\ ResizedSwap # {}
    /\ \A i \in ResizedSwap : SourceData(i).uuid # ""
    /\ ExecsOf("mkswap") # {}
C25_WitnessNoUuid ==
    /\ Did("write") /\ lastOp.expand /\ lastOp.failAt = 0
    /\ HasEvent("reread") /\ "linux-swap" \in fstypes
    /\ \E i \in ResizedSwap : SourceData(i).uuid = ""
    /\ result.err = "ValueError"
    /\ ExecsOf("mkswap") = {}

\* the scratch files an expanding write makes for ext partitions, and the
\* copies of a file to the target
ExtScratches ==
    {k \in Where("scratch") : StartsWith(partitions[log[k].tool].fstype, "ext")}
ToTarget(f) == {t \in Where("copy") : log[t].tool = f /\ log[t].arg = TARGET}
Landed(t) == t = Len(log) \/ log[t + 1].ev # "failed"

\* C26: an expanding write handles a resized ext partition in this order:
\* the partition is staged, the staging file is copied to a scratch file,
\* e2fsck runs, resize2fs runs with the sector count of the table read back,
\* the scratch file is copied to the partition's offset on the target.  When
\* e2fsck or resize2fs fails nothing of the partition is on the target; a
\* write that returns has put there an ext filesystem of the new size.
C26_ExtCheckedResizedCopied ==
    (Did("write") /\ lastOp.expand /\ HasEvent("reread")) =>
        \A k \in ExtScratches :
            /\ log[k - 1] = Event("resized", log[k].tool, TargetTable[Num(log[k].tool)].start)
            /\ Cardinality(ToTarget(log[k].arg)) <= 1
            /\ \A t \in ToTarget(log[k].arg) :
                  /\ log[t - 1] = Event("exec", "resize2fs", TargetTable[Num(log[k].tool)].size)
                  /\ log[t - 2] = Event("exec", "e2fsck", "")
                  /\ log[t - 3] = Event("copy", partimages[log[k].tool], log[k].arg)
                  /\ k < t - 3
                  /\ \E j \in (k + 1)..(t - 4) : log[j].ev = "stage" /\ log[j].tool = log[k].tool
                  /\ Landed(t) =>
                        \E e \in files[TARGET] :
                           /\ e.off = TargetTable[Num(log[k].tool)].start * LSectorSize
                           /\ e.len = TargetTable[Num(log[k].tool)].size * LSectorSize
                           /\ e.data = SourceData(Num(log[k].tool))
            /\ ToTarget(log[k].arg) = {} =>
                  /\ ~Succeeded
                  /\ \A e \in files[TARGET] :
                        e.off # TargetTable[Num(log[k].tool)].start * LSectorSize
            /\ \A x \in ExecsOf("e2fsck") \cup ExecsOf("resize2fs") :
                  (x > k /\ x < Len(log) /\ log[x + 1].ev = "failed") =>
                      ToTarget(log[k].arg) = {}
C26_Witness ==
    /\ Did("write") /\ lastOp.expand /\ Succeeded
    /\ \E k \in ExtScratches : ToTarget(log[k].arg) # {}
C26_WitnessResizeFails ==
    /\ Did("write") /\ lastOp.expand /\ ExtScratches # {}
    /\ log[Len(log)].ev = "failed" /\ log[Len(log) - 1] .ev = "exec"
    /\ log[Len(log) - 1].tool = "resize2fs"

\* the table containers of the source, by their place in the table
Containers == {i \in DOMAIN SourceTable : IsContainer(SourceTable[i].type)}

\* C27: an expanding write never stages a table container, never resizes
\* one and never copies one to the target, whether its size in the table
\* read back is its size in the source or not, and no error is raised for
\* it.
C27_ContainerLeftAlone ==
    (Did("write") /\ lastOp.expand /\ HasEvent("reread")) =>
        \A i \in Containers :
            /\ \A k \in EventsFor(i) : log[k].ev = "warning"
            /\ \A e \in files[TARGET] : e.off # TargetTable[i].start * LSectorSize
            /\ ~(result.err = "UnsupportedFilesystem" /\ result.out = SourceTable[i].pnum)
C27_ChangedHolds ==
    (Did("write") /\ lastOp.expand /\ HasEvent("reread")) =>
        \A i \in Containers :
            TargetTable[i].size # SourceTable[i].size =>
                /\ \A k \in EventsFor(i) : log[k].ev = "warning"
                /\ \A e \in files[TARGET] : e.off # TargetTable[i].start * LSectorSize
                /\ ~(result.err = "UnsupportedFilesystem" /\ result.out = SourceTable[i].pnum)
C27_WitnessChanged ==
    /\ Did("write") /\ lastOp.expand /\ HasEvent("reread")
    /\ \E i \in Containers : TargetTable[i].size # SourceTable[i].size /\ SourceTable[i].type = "f"
    /\ \E k \in DOMAIN log : log[k].ev \in PartitionEvents /\ log[k].tool = "1"
C27_WitnessUnchanged ==
    /\ Did("write") /\ lastOp.expand /\ HasEvent("reread") /\ lastOp.failAt = 0
    /\ \E i \in Containers :
          /\ TargetTable[i].size = SourceTable[i].size
          /\ result.err = "UnsupportedFilesystem" /\ result.out = SourceTable[i].pnum

\* the entries the sizing of an expanding write has left at their size
Untouched == {i \in DOMAIN Sized : Sized[i].size = Sizing.source[i].size}

\* C28: the table read back from the target after the second table write
\* has the entries of the document written, as many and in the same order,
\* and every entry the sizing has left at its size has in it the size it has
\* in the source.
C28_RereadMatchesWritten ==
    (Did("write") /\ lastOp.expand /\ HasEvent("reread")) =>
        /\ Len(TargetTable) = Len(Sized)
        /\ \A i \in DOMAIN Sized :
              /\ TargetTable[i].type = Sized[i].type
              /\ TargetTable[i].name = Sized[i].name
              /\ TargetTable[i].bootable = Sized[i].bootable
        /\ \A i \in Untouched : TargetTable[i].size = SourceTable[i].size
C28_SizedEntriesHold ==
    (Did("write") /\ lastOp.expand /\ HasEvent("reread")) =>
        /\ Len(TargetTable) = Len(Sized)
        /\ \A i \in DOMAIN Sized :
              /\ TargetTable[i].type = Sized[i].type
              /\ TargetTable[i].name = Sized[i].name
              /\ TargetTable[i].bootable = Sized[i].bootable
        /\ \A i \in Untouched :
              Sized[i].type # "f" => TargetTable[i].size = SourceTable[i].size
C28_WitnessSized ==
    /\ Did("write") /\ lastOp.expand /\ HasEvent("reread")
    /\ Len(TargetTable) = 3
    /\ \E i \in Untouched : Sized[i].type # "f"
    /\ \E i \in DOMAIN Sized : i \notin Untouched

\* C29: between the operations of an engine every staging file holds what
\* the full image holds for its partition, also after an operation that
\* failed part-way.
C29_StagingNeverStale ==
    ~disposed =>
        \A p \in DOMAIN partimages :
            /\ partimages[p] \in DOMAIN files
            /\ HasAt(files[IMAGE], partitions[p].start)
            /\ DataIn(files, partimages[p]) = At(files[IMAGE], partitions[p].start).data
\* a later operation that returns has flushed into the full image what an
\* earlier failed remove had left in the staging file
C29_LeftoversFlushed ==
    /\ Succeeded /\ HasEvent("flush") /\ nops = 2
    /\ \E p \in DOMAIN precache :
          /\ HasAt(pre[IMAGE], partitions[p].start)
          /\ DataIn(pre, precache[p]) # At(pre[IMAGE], partitions[p].start).data
          /\ DataIn(pre, precache[p]).fs = "ext"
          /\ HasAt(files[IMAGE], partitions[p].start)
          /\ DataIn(files, partimages[p]) = At(files[IMAGE], partitions[p].start).data
\* a recursive remove that no failure of the environment interrupts leaves
\* the staging file without entries the full image still has
C29_StaleAfterRemove ==
    /\ Did("remove") /\ lastOp.flag /\ lastOp.failAt = 0 /\ faults = 0 /\ ~Succeeded
    /\ ~disposed
    /\ \E p \in DOMAIN partimages :
          /\ HasAt(files[IMAGE], partitions[p].start)
          /\ DataIn(files, partimages[p]) # At(files[IMAGE], partitions[p].start).data

\* C30: what an expanding write puts on the target at the start of a
\* partition is no longer than the partition is in the table read back; the
\* FAT filesystem mkdosfs makes for a resized partition has the size of the
\* partition.
C30_CopyWithinPartition ==
    (Did("write") /\ lastOp.expand /\ HasEvent("reread")) =>
        /\ \A i \in DOMAIN TargetTable : \A e \in files[TARGET] :
              e.off = TargetTable[i].start * LSectorSize =>
                  e.len <= TargetTable[i].size * LSectorSize
        /\ \A k \in ExecsOf("mkdosfs") :
              log[k].arg.blocks * MkdosfsBlock = TargetTable[PartAt(k)].size * LSectorSize
C30_OthersHold ==
    (Did("write") /\ lastOp.expand /\ HasEvent("reread")) =>
        \A i \in DOMAIN TargetTable : \A e \in files[TARGET] :
            (/\ e.off = TargetTable[i].start * LSectorSize
             /\ ~StartsWith(SourceTable[i].fstype, "fat")) =>
                e.len <= TargetTable[i].size * LSectorSize
C30_WitnessFatOverrun ==
    /\ Did("write") /\ lastOp.expand /\ HasEvent("reread")
    /\ \E i \in DOMAIN TargetTable : \E e \in files[TARGET] :
          /\ e.off = TargetTable[i].start * LSectorSize
          /\ e.data.fs = "fat"
          /\ e.len = 2 * TargetTable[i].size * LSectorSize

\* the file a staged partition is extracted to: the partition's bytes at
\* offset 0
StagedCopyOf(image, pnum) ==
    Overlay({}, Pieces(image, partitions[pnum].start, 0, partitions[pnum].size))

\* C31: a write, verbatim or expanding, returning or raising, leaves the
\* source image byte for byte as it was, makes no flush, leaves every staging
\* file that was cached before it cached and unchanged, leaves every staging
\* file it caches itself the plain extract of the partition, takes for each
\* scratch file a name that no staging file has, and leaves the partition
\* records those of the source image's table.
C31_WriteLeavesSource ==
    Did("write") =>
        /\ files[IMAGE] = pre[IMAGE]
        /\ ~HasEvent("flush")
        /\ \A p \in DOMAIN precache :
              /\ p \in DOMAIN partimages /\ partimages[p] = precache[p]
              /\ precache[p] \in DOMAIN files /\ files[precache[p]] = pre[precache[p]]
        /\ \A p \in DOMAIN partimages \ DOMAIN precache :
              /\ partimages[p] \in DOMAIN files
              /\ files[partimages[p]] = StagedCopyOf(pre[IMAGE], p)
        /\ \A k \in DOMAIN log :
              log[k].ev = "scratch" =>
                  log[k].arg \notin StagedPaths(partimages) \cup StagedPaths(precache)
        /\ partitions = get_partitions(PartedOutput(TableOf(pre[IMAGE]), <<>>, TRUE))

\* an expanding write that has resized an ext partition staged before it and
\* staged another partition itself
C31_Witness ==
    /\ Did("write") /\ lastOp.expand /\ Succeeded
    /\ DOMAIN precache # {}
    /\ DOMAIN partimages # DOMAIN precache
    /\ \E k \in DOMAIN log : /\ log[k].ev = "exec"
                             /\ log[k].tool = "resize2fs"
    /\ \E k \in DOMAIN log : /\ log[k].ev = "resized"
                             /\ log[k].tool \in DOMAIN precache

\* a write that fails in the resize of an ext partition staged before it
C31_WitnessFailure ==
    /\ Did("write") /\ lastOp.expand /\ result.err = "ToolExecutionFailure"
    /\ DOMAIN precache # {}
    /\ Len(log) > 1
    /\ log[Len(log)].ev = "failed"
    /\ log[Len(log) - 1].ev = "exec"
    /\ log[Len(log) - 1].tool = "resize2fs"


\* the names write has taken for scratch files
ScratchNames == {log[k].arg : k \in {j \in DOMAIN log : log[j].ev = "scratch"}}

\* C32: when write has returned or raised, no scratch file that it made for
\* a resized partition exists.
C32_NoScratchLeft ==
    Did("write") => \A f \in ScratchNames : f \notin DOMAIN files

\* a write that returns leaves no scratch file
C32_ReturnedHolds ==
    (Did("write") /\ Succeeded) => \A f \in ScratchNames : f \notin DOMAIN files

\* a write with no failure of the environment, whose copy into the rebuilt
\* FAT filesystem fails, leaves the rebuilt image behind
C32_ScratchLeftBehind ==
    /\ Did("write") /\ lastOp.failAt = 0
    /\ result.err = "ToolExecutionFailure"
    /\ \E f \in ScratchNames : f \in DOMAIN files /\ IsFat(files, f)

\* a write that has resized partitions and returned
C32_WitnessReturned ==
    /\ Did("write") /\ Succeeded
    /\ Cardinality(ScratchNames) > 1


\* a write whose check of the resized ext copy fails leaves the copy behind
C32_ScratchLeftAfterCheck ==
    /\ Did("write") /\ result.err = "ToolExecutionFailure"
    /\ Len(log) > 1
    /\ log[Len(log)].ev = "failed"
    /\ log[Len(log) - 1].ev = "exec"
    /\ log[Len(log) - 1].tool = "e2fsck"
    /\ \E f \in ScratchNames : f \in DOMAIN files /\ DataIn(files, f).fs = "ext"


\* the operation named a partition number the table does not hold
AbsentPartition(ops) == lastOp.op \in ops /\ lastOp.pnum \notin DOMAIN partitions

\* nothing was run, staged or changed
NothingDone ==
    /\ ~HasEvent("exec") /\ ~HasEvent("mktemp") /\ ~HasEvent("copy")
    /\ files = pre
    /\ partimages = precache

\* C33: dir, copy and remove on a partition number that the table does not
\* hold raise PartitionNotFound, with no tool run, no staging file created
\* and no file changed.
C33_AbsentPartitionRefused ==
    AbsentPartition({"dir", "copy", "remove"}) =>
        result.err = "PartitionNotFound" /\ NothingDone

\* dir and remove do so, and copy runs and stages nothing either
C33_DirRemoveHold ==
    /\ AbsentPartition({"dir", "remove"}) =>
          result.err = "PartitionNotFound" /\ NothingDone
    /\ AbsentPartition({"copy"}) => result.err # "" /\ NothingDone

\* a copy to an absent partition ends with the KeyError of the lookup
C33_CopyKeyError ==
    /\ AbsentPartition({"copy"})
    /\ result.err = "KeyError"
    /\ DOMAIN precache # {}

C33_WitnessDir ==
    /\ AbsentPartition({"dir"})
    /\ result.err = "PartitionNotFound"
    /\ DOMAIN precache # {}


\* the document of the second table write, when the write got that far
SecondTable == TablesWritten[2].arg
HasSecondTable == Did("write") /\ lastOp.expand /\ Len(TablesWritten) >= 2

\* C34: every partition that is not a container has a size of at least one
\* sector in the document an expanding write hands to the second table
\* write.
C34_SizesAtLeastOneSector ==
    HasSecondTable => \A i \in Payload(SecondTable) : SecondTable[i].size >= 1

\* it is so when the pool is not negative and no explicit size is less than
\* a sector
C34_WithinFreeHolds ==
    (HasSecondTable /\ Sizing.pool >= 0
        /\ \A n \in DOMAIN lastOp.plan : lastOp.plan[n] = 0 \/ lastOp.plan[n] >= LSectorSize)
    => \A i \in Payload(SecondTable) : SecondTable[i].size >= 1

C34_WitnessWithinFree ==
    /\ HasSecondTable /\ Succeeded
    /\ Sizing.pool > 0 /\ Sizing.auto # {} /\ Explicit # {}

\* an explicit size beyond the free space: the pool is negative and the
\* second table write is handed an auto-resize partition of a negative size
C34_NegativeAutoSize ==
    /\ HasSecondTable /\ lastOp.failAt = 0
    /\ Sizing.pool < 0
    /\ \E i \in Sizing.auto : SecondTable[i].size < 0
    /\ SecondTable = Sized

\* an explicit size of less than a sector goes into the document as 0
C34_ZeroExplicitSize ==
    /\ HasSecondTable /\ lastOp.failAt = 0
    /\ \E i \in Explicit : SecondTable[i].size = 0

====
